---- MODULE Spec2Model ----
(***************************************************************************)
(* Field layer of the columnar serialization engine (RField.cxx).          *)
(*                                                                         *)
(* The model follows one field of a field tree through the binding         *)
(* protocol: SetColumnRepresentative, ConnectPageSink (with                *)
(* AutoAdjustColumnTypes and GenerateColumnsImpl) and ConnectPageSource    *)
(* (with EnsureCompatibleColumnTypes).  The field's kind, type alias,      *)
(* item size, repetition count, on-disk id and chain of ancestors are      *)
(* fixed at construction; the page sink's write options and the page       *)
(* source's descriptor are inputs of the connect calls.                    *)
(***************************************************************************)
EXTENDS Integers, Sequences, FiniteSets, TLC

VARIABLES
    kind,                   \* the concrete class of the field
    fTypeAlias,             \* RFieldBase::fTypeAlias ("" when unset)
    fNRepetitions,          \* RFieldBase::fNRepetitions
    itemValueSize,          \* fSubFields[0]->GetValueSize() (nullable kinds)
    ancestors,              \* GetParent() chain, parent first: [structure, nRepetitions]
    fOnDiskId,              \* RFieldBase::fOnDiskId
    fOnDiskTypeVersion,     \* RFieldBase::fOnDiskTypeVersion
    fColumnRepresentative,  \* pointer into the static table, or nullptr
    fColumns,               \* RFieldBase::fColumns
    fPrincipalColumn,       \* index into fColumns, 0 for nullptr
    connected,              \* history: "none", "sink" or "source"
    status,                 \* "running", or "aborted" after a fatal assertion or crash
    lastCall                \* history: the last call, its arguments and its outcome

\* The state of the binding protocol.
bindingVars == <<kind, fTypeAlias, fNRepetitions, itemValueSize, ancestors, fOnDiskId,
                 fOnDiskTypeVersion, fColumnRepresentative, fColumns, fPrincipalColumn,
                 connected, status, lastCall>>

VARIABLES
    fNWritten,              \* cumulative element count of a collection field
    fIndex,                 \* RField<std::string>::fIndex
    indexColumn,            \* the values appended to fColumns[0], oldest first
    nItemsAppended,         \* elements appended to the item (or character) column
    entries,                \* history: [count, cluster] of every Append, oldest first
    nCommits                \* history: number of CommitCluster calls

\* The state of the write path of collections and strings.
appendVars == <<fNWritten, fIndex, indexColumn, nItemsAppended, entries, nCommits>>

VARIABLES
    uniquePtr,              \* the destination std::unique_ptr: an object of `heap`, or 0
    heap,                   \* the item objects allocated so far: [state, value]
    present,                \* history: for every entry written, whether it held a value
    principalData,          \* the elements of the principal column on disk
    lastRead                \* history: the last ReadGlobalImpl, its argument and effects

\* The state of the read path of RUniquePtrField.
uniquePtrVars == <<uniquePtr, heap, present, principalData, lastRead>>

VARIABLES
    fieldTree,              \* a field tree F: its root node
    clone                   \* the result of Clone(F), or <<>> before the call

\* The state of cloning.
cloneVars == <<fieldTree, clone>>

VARIABLES
    createArgs,             \* the arguments of RFieldBase::Create: [fieldName, typeName]
    createResult            \* what the call produced, or <<>> before the call

\* The state of the field factory.
createVars == <<createArgs, createResult>>

VARIABLES
    rawTypeName,            \* a type name, as a sequence of tokens
    normalizedOnce,         \* GetNormalizedTypeName(rawTypeName), or <<>> before the call
    normalizedTwice         \* GetNormalizedTypeName(normalizedOnce), or <<>> before the call

\* The state of type-name normalization.
normalizeVars == <<rawTypeName, normalizedOnce, normalizedTwice>>

VARIABLES
    fReadCallbacks,         \* RFieldBase::fReadCallbacks
    fIsSimple,              \* RFieldBase::fIsSimple
    fTraits,                \* RFieldBase::fTraits, as a set of trait names
    callbackHandles,        \* history: for every element of fReadCallbacks, the index
                            \* AddReadCallback returned when it was installed
    lastCallbackCall        \* history: the last call on the callback list

\* The state of the read callbacks.
callbackVars == <<fReadCallbacks, fIsSimple, fTraits, callbackHandles, lastCallbackCall>>

VARIABLES
    vectorValue,            \* the items of the destination std::vector, first to last
    itemTraits,             \* fSubFields[0]->GetTraits(), as a set of trait names
    vectorSizes,            \* history: the number of items of every entry written
    lastVectorRead          \* history: the last RVectorField::ReadGlobalImpl

\* The state of the read path of RVectorField.
vectorVars == <<vectorValue, itemTraits, vectorSizes, lastVectorRead>>

VARIABLES
    rvBase,                 \* address of the RVec value (where fBegin is stored)
    rvItem,                 \* the item field: [size, alignment, traits]
    rvBegin,                \* RVec::fBegin, an address (0 for nullptr)
    rvSize,                 \* RVec::fSize
    rvCapacity,             \* RVec::fCapacity (-1: the buffer is not owned)
    rvFreed,                \* history: the addresses given to free(), in call order
    lastRVecCall            \* history: the last call on the value and its effects

\* The state of an RVec value that RRVecField reads into and destroys.
rvecVars == <<rvBase, rvItem, rvBegin, rvSize, rvCapacity, rvFreed, lastRVecCall>>

VARIABLES
    nAlternatives,          \* number of subfields of the variant field
    tagByte,                \* the byte at fTagOffset of the variant value, 0..255
    variantObjects,         \* history: the alternatives constructed in the value's
                            \* storage: [alternative, destroyed (number of times)]
    fNWrittenOf,            \* RVariantField::fNWritten, one counter per subfield
    switchColumn,           \* the switch records appended to fColumns[0]: [tag, index]
    childAppends,           \* history: number of Append calls on every subfield
    variantLog,             \* history: [tag, cluster] of every Append or of every
                            \* entry read, oldest first
    nVariantCommits,        \* history: number of CommitCluster calls
    lastVariantCall         \* history: the last call on the variant field or value

\* The state of a variant field and of a variant value.
variantVars == <<nAlternatives, tagByte, variantObjects, fNWrittenOf, switchColumn,
                 childAppends, variantLog, nVariantCommits, lastVariantCall>>

\* The state of the in-memory values of the collection, variant and record fields.
VARIABLES
    recordField,            \* a record, pair or tuple field: [kind, items, fSize,
                            \* fOffsets, fMaxAlignment]
    recordClone             \* the result of Clone on it, or <<>> before the call

\* The state of a record field and of its clone.
recordVars == <<recordField, recordClone>>

valueVars == <<rvecVars, variantVars, recordVars>>

vars == <<bindingVars, appendVars, uniquePtrVars, cloneVars, createVars, normalizeVars,
          callbackVars, vectorVars, valueVars>>

NoRVecCall ==
    [op |-> "none",
     outcome |-> "ok",        \* "ok", or "crash" when the call did not return
     nItems |-> 0,            \* number of items of the entry read
     pre |-> <<>>,            \* [begin, size, capacity] when the call began
     destroyed |-> <<>>,      \* positions given to DestroyValueBy, in call order
     constructed |-> <<>>,    \* positions given to GenerateValueBy, in call order
     reallocated |-> FALSE]   \* whether the items moved to a new buffer

\* No RVec value.
RVecIdle ==
    /\ rvBase = 0
    /\ rvItem = <<>>
    /\ rvBegin = 0
    /\ rvSize = 0
    /\ rvCapacity = 0
    /\ rvFreed = <<>>
    /\ lastRVecCall = NoRVecCall

NoVariantCall ==
    [op |-> "none",
     tag |-> 0,               \* argument of SetTag, or tag of the entry read / appended
     result |-> 0]            \* what GetTag returned

\* No variant field.
VariantIdle ==
    /\ nAlternatives = 0
    /\ tagByte = 0
    /\ variantObjects = <<>>
    /\ fNWrittenOf = <<>>
    /\ switchColumn = <<>>
    /\ childAppends = <<>>
    /\ variantLog = <<>>
    /\ nVariantCommits = 0
    /\ lastVariantCall = NoVariantCall

\* No record field.
RecordIdle == recordField = <<>> /\ recordClone = <<>>

ValueIdle == RVecIdle /\ VariantIdle /\ RecordIdle

\* The write path before the first Append (the constructors set the counters to 0).
\* RField<std::string>::fIndex as constructed.
StringIndexAsConstructed == 0

AppendIdle ==
    /\ fNWritten = 0
    /\ fIndex = StringIndexAsConstructed
    /\ indexColumn = <<>>
    /\ nItemsAppended = 0
    /\ entries = <<>>
    /\ nCommits = 0

NoRead ==
    [op |-> "none",
     globalIndex |-> 0,       \* argument of ReadGlobalImpl
     preUniquePtr |-> 0,      \* uniquePtr when the call began
     preHeap |-> <<>>,        \* heap when the call began
     itemReads |-> <<>>]      \* the calls of fSubFields[0]->Read: [itemIndex, object]

\* No destination value, nothing written.
UniquePtrIdle ==
    /\ uniquePtr = 0
    /\ heap = <<>>
    /\ present = <<>>
    /\ principalData = <<>>
    /\ lastRead = NoRead

\* No tree to clone.
CloneIdle == fieldTree = <<>> /\ clone = <<>>

\* No call of the factory.
CreateIdle == createArgs = <<>> /\ createResult = <<>>

\* No type name to normalize.
NormalizeIdle == rawTypeName = <<>> /\ normalizedOnce = <<>> /\ normalizedTwice = <<>>

NoCallbackCall ==
    [op |-> "none",
     idx |-> 0,               \* argument of RemoveReadCallback
     outcome |-> "ok"]        \* "ok", or "crash" when the call did not return

\* A field that is not simple and has no read callback.
CallbackIdle ==
    /\ fReadCallbacks = <<>>
    /\ fIsSimple = FALSE
    /\ fTraits = {}
    /\ callbackHandles = <<>>
    /\ lastCallbackCall = NoCallbackCall

NoVectorRead ==
    [op |-> "none",
     globalIndex |-> 0,       \* argument of ReadGlobalImpl
     preValue |-> <<>>,       \* vectorValue when the call began
     destroyed |-> <<>>,      \* positions given to DestroyValueBy, in call order
     constructed |-> <<>>,    \* positions given to GenerateValueBy, in call order
     read |-> <<>>]           \* positions given to fSubFields[0]->Read, in call order

\* No destination vector, nothing written.
VectorIdle ==
    /\ vectorValue = <<>>
    /\ itemTraits = {}
    /\ vectorSizes = <<>>
    /\ lastVectorRead = NoVectorRead

\* What the binding protocol leaves alone.
OutsideBinding == <<appendVars, uniquePtrVars, cloneVars, createVars, normalizeVars,
                    callbackVars, vectorVars, valueVars>>
OutsideBindingIdle ==
    /\ AppendIdle /\ UniquePtrIdle /\ CloneIdle /\ CreateIdle /\ NormalizeIdle
    /\ CallbackIdle /\ VectorIdle
    /\ ValueIdle

\* What the write path leaves alone, the binding of the field apart.
OutsideAppend == <<uniquePtrVars, cloneVars, createVars, normalizeVars, callbackVars,
                   vectorVars, valueVars>>
OutsideAppendIdle ==
    /\ UniquePtrIdle /\ CloneIdle /\ CreateIdle /\ NormalizeIdle /\ CallbackIdle
    /\ VectorIdle
    /\ ValueIdle

\* What the read path of RUniquePtrField leaves alone, the binding apart.
OutsideUniquePtr == <<appendVars, cloneVars, createVars, normalizeVars, callbackVars,
                      vectorVars, valueVars>>
OutsideUniquePtrIdle ==
    /\ AppendIdle /\ CloneIdle /\ CreateIdle /\ NormalizeIdle /\ CallbackIdle
    /\ VectorIdle
    /\ ValueIdle

-----------------------------------------------------------------------------
(* Bounds of the model *)

MaxEntry == 1
MaxRepetitions == 2
MaxDepth == 1
MaxItemSize == 4
MaxTypeVersion == 1

-----------------------------------------------------------------------------
(* Column element types and the static representation tables *)

kInvalidDescriptorId == 0
kInvalidTypeVersion == -1

nullptr == <<>>

SplitTypes == {"kSplitIndex64", "kSplitIndex32", "kSplitReal64", "kSplitReal32",
               "kSplitInt64", "kSplitUInt64", "kSplitInt32", "kSplitUInt32",
               "kSplitInt16", "kSplitUInt16"}

ColumnTypes == SplitTypes \cup
               {"kIndex64", "kIndex32", "kSwitch", "kByte", "kChar", "kBit",
                "kReal64", "kReal32", "kInt64", "kUInt64", "kInt32", "kUInt32",
                "kInt16", "kUInt16", "kInt8", "kUInt8"}

\* RColumnRepresentations(): a single representation with no column.
DefaultRepresentations ==
    [fSerializationTypes |-> << <<>> >>, fDeserializationTypes |-> << <<>> >>]

\* RColumnRepresentations(serializationTypes, deserializationExtraTypes)
RColumnRepresentations(serializationTypes, deserializationExtraTypes) ==
    [fSerializationTypes |-> serializationTypes,
     fDeserializationTypes |-> serializationTypes \o deserializationExtraTypes]

IndexRows == << <<"kSplitIndex64">>, <<"kIndex64">>, <<"kSplitIndex32">>, <<"kIndex32">> >>

ClusterSizeRepresentations == RColumnRepresentations(IndexRows, << >>)
CardinalityRepresentations == RColumnRepresentations(IndexRows, << >>)
CharRepresentations == RColumnRepresentations(<< <<"kChar">> >>, << <<>> >>)
Int8Representations == RColumnRepresentations(<< <<"kInt8">> >>, << <<"kUInt8">> >>)
UInt8Representations == RColumnRepresentations(<< <<"kUInt8">> >>, << <<"kInt8">> >>)
BoolRepresentations == RColumnRepresentations(<< <<"kBit">> >>, << >>)
FloatRepresentations ==
    RColumnRepresentations(<< <<"kSplitReal32">>, <<"kReal32">> >>, << >>)
DoubleRepresentations ==
    RColumnRepresentations(
        << <<"kSplitReal64">>, <<"kReal64">>, <<"kSplitReal32">>, <<"kReal32">> >>, << >>)
Int16Representations ==
    RColumnRepresentations(<< <<"kSplitInt16">>, <<"kInt16">> >>,
                           << <<"kSplitUInt16">>, <<"kUInt16">> >>)
UInt16Representations ==
    RColumnRepresentations(<< <<"kSplitUInt16">>, <<"kUInt16">> >>,
                           << <<"kSplitInt16">>, <<"kInt16">> >>)
Int32Representations ==
    RColumnRepresentations(<< <<"kSplitInt32">>, <<"kInt32">> >>,
                           << <<"kSplitUInt32">>, <<"kUInt32">> >>)
UInt32Representations ==
    RColumnRepresentations(<< <<"kSplitUInt32">>, <<"kUInt32">> >>,
                           << <<"kSplitInt32">>, <<"kInt32">> >>)
UInt64Representations ==
    RColumnRepresentations(<< <<"kSplitUInt64">>, <<"kUInt64">> >>,
                           << <<"kSplitInt64">>, <<"kInt64">> >>)
Int64Representations ==
    RColumnRepresentations(<< <<"kSplitInt64">>, <<"kInt64">> >>,
                           << <<"kSplitUInt64">>, <<"kUInt64">>, <<"kInt32">>,
                              <<"kSplitInt32">>, <<"kUInt32">>, <<"kSplitUInt32">> >>)
StringRepresentations ==
    RColumnRepresentations(<< <<"kSplitIndex64", "kChar">>, <<"kIndex64", "kChar">>,
                              <<"kSplitIndex32", "kChar">>, <<"kIndex32", "kChar">> >>,
                           << >>)
CollectionClassRepresentations == RColumnRepresentations(IndexRows, << >>)
VectorRepresentations == RColumnRepresentations(IndexRows, << >>)
RVecRepresentations == RColumnRepresentations(IndexRows, << >>)
VectorBoolRepresentations == RColumnRepresentations(IndexRows, << >>)
BitsetRepresentations == RColumnRepresentations(<< <<"kBit">> >>, << >>)
VariantRepresentations == RColumnRepresentations(<< <<"kSwitch">> >>, << <<>> >>)
NullableRepresentations ==
    RColumnRepresentations(IndexRows \o << <<"kBit">> >>, << >>)
CollectionRepresentations == RColumnRepresentations(IndexRows, << >>)

\* Kinds that keep RFieldBase's default table and bind no column of their own.
NoColumnKinds == {"Record", "Array", "Pair", "Tuple", "Enum"}

\* Kinds that bind exactly one column, of the representative's first type.
OneColumnKinds == {"ClusterSize", "Cardinality", "Char", "Int8", "UInt8", "Bool",
                   "Float", "Double", "Int16", "UInt16", "Int32", "UInt32",
                   "UInt64", "Int64", "CollectionClass", "Vector", "RVec",
                   "VectorBool", "Bitset", "Variant", "Collection"}

Kinds == NoColumnKinds \cup OneColumnKinds \cup {"String", "Nullable"}

\* Virtual dispatch of GetColumnRepresentations(); kinds without an override
\* get the base class's table.
GetColumnRepresentations(k) ==
    CASE k = "ClusterSize" -> ClusterSizeRepresentations
      [] k = "Cardinality" -> CardinalityRepresentations
      [] k = "Char" -> CharRepresentations
      [] k = "Int8" -> Int8Representations
      [] k = "UInt8" -> UInt8Representations
      [] k = "Bool" -> BoolRepresentations
      [] k = "Float" -> FloatRepresentations
      [] k = "Double" -> DoubleRepresentations
      [] k = "Int16" -> Int16Representations
      [] k = "UInt16" -> UInt16Representations
      [] k = "Int32" -> Int32Representations
      [] k = "UInt32" -> UInt32Representations
      [] k = "UInt64" -> UInt64Representations
      [] k = "Int64" -> Int64Representations
      [] k = "String" -> StringRepresentations
      [] k = "CollectionClass" -> CollectionClassRepresentations
      [] k = "Vector" -> VectorRepresentations
      [] k = "RVec" -> RVecRepresentations
      [] k = "VectorBool" -> VectorBoolRepresentations
      [] k = "Bitset" -> BitsetRepresentations
      [] k = "Variant" -> VariantRepresentations
      [] k = "Nullable" -> NullableRepresentations
      [] k = "Collection" -> CollectionRepresentations
      [] OTHER -> DefaultRepresentations

GetSerializationTypes(k) == GetColumnRepresentations(k).fSerializationTypes
GetDeserializationTypes(k) == GetColumnRepresentations(k).fDeserializationTypes
GetSerializationDefault(k) == GetSerializationTypes(k)[1]

Range(s) == {s[i] : i \in 1..Len(s)}

\* Column type lists tried on a field of kind k, as a representative and as
\* the on-disk list: every row the kind accepts, and lists it does not.
CandidateRows(k) ==
    Range(GetDeserializationTypes(k)) \cup { <<>>, <<"kByte">> }

-----------------------------------------------------------------------------
(* Representative: inspection and choice *)

\* A representative pointer is <<"ser", i>> or <<"deser", i>>: the address of
\* row i of fSerializationTypes or of fDeserializationTypes.
Deref(k, ptr) ==
    IF ptr[1] = "ser" THEN GetSerializationTypes(k)[ptr[2]]
                      ELSE GetDeserializationTypes(k)[ptr[2]]

HasDefaultColumnRepresentative(ptr) == ptr = nullptr

GetColumnRepresentative(k, ptr) ==
    IF ptr # nullptr THEN Deref(k, ptr) ELSE GetSerializationDefault(k)

\* std::find: the first position of row in rows, 0 for end().
Find(rows, row) ==
    IF \E i \in 1..Len(rows) : rows[i] = row
    THEN CHOOSE i \in 1..Len(rows) : rows[i] = row /\ \A j \in 1..(i - 1) : rows[j] # row
    ELSE 0

Thrown(msg, ptr) == [outcome |-> "throw", msg |-> msg, rep |-> ptr]
Returned(ptr) == [outcome |-> "ok", msg |-> "", rep |-> ptr]

SetColumnRepresentative_AcceptsDeserializationRows(k, columns, ptr, representative) ==
    IF columns # <<>>
    THEN Thrown("cannot set column representative once field is connected", ptr)
    ELSE LET it == Find(GetDeserializationTypes(k), representative)
         IN  IF it = 0 THEN Thrown("invalid column representative", ptr)
                       ELSE Returned(<<"deser", it>>)

\* The result of SetColumnRepresentative(representative) on a field of kind k
\* with the given fColumns and fColumnRepresentative.
SetColumnRepresentative(k, columns, ptr, representative) ==
    IF columns # <<>>
    THEN Thrown("cannot set column representative once field is connected", ptr)
    ELSE LET validTypes == GetSerializationTypes(k)
             itRepresentative == Find(validTypes, representative)
         IN  IF itRepresentative = 0 THEN Thrown("invalid column representative", ptr)
                                     ELSE Returned(<<"ser", itRepresentative>>)

-----------------------------------------------------------------------------
(* AutoAdjustColumnTypes *)

\* The switch of the compression-disabled branch.
Unsplit(colType) ==
    CASE colType = "kSplitIndex64" -> "kIndex64"
      [] colType = "kSplitIndex32" -> "kIndex32"
      [] colType = "kSplitReal64" -> "kReal64"
      [] colType = "kSplitReal32" -> "kReal32"
      [] colType = "kSplitInt64" -> "kInt64"
      [] colType = "kSplitInt32" -> "kInt32"
      [] colType = "kSplitInt16" -> "kInt16"
      [] OTHER -> colType

\* The switch of the small-clusters branch.
Narrow(colType) ==
    CASE colType = "kSplitIndex64" -> "kSplitIndex32"
      [] colType = "kIndex64" -> "kIndex32"
      [] OTHER -> colType

MapTypes(Op(_), rep) == [i \in 1..Len(rep) |-> Op(rep[i])]

AutoAdjustColumnTypes_NarrowOnlyDefault(k, columns, ptr, alias, options) ==
    LET s1 == IF options.compression = 0 /\ HasDefaultColumnRepresentative(ptr)
              THEN SetColumnRepresentative(k, columns, ptr,
                       MapTypes(Unsplit, GetColumnRepresentative(k, ptr)))
              ELSE Returned(ptr)
        s2 == IF options.hasSmallClusters /\ HasDefaultColumnRepresentative(ptr)
              THEN SetColumnRepresentative(k, columns, s1.rep,
                       MapTypes(Narrow, GetColumnRepresentative(k, s1.rep)))
              ELSE Returned(s1.rep)
        s3 == IF alias = "Double32_t"
              THEN SetColumnRepresentative(k, columns, s2.rep, <<"kSplitReal32">>)
              ELSE Returned(s2.rep)
    IN  IF s1.outcome # "ok" THEN s1
        ELSE IF s2.outcome # "ok" THEN s2
        ELSE s3

AutoAdjustColumnTypes_IgnoresDouble32(k, columns, ptr, alias, options) ==
    LET s1 == IF options.compression = 0 /\ HasDefaultColumnRepresentative(ptr)
              THEN SetColumnRepresentative(k, columns, ptr,
                       MapTypes(Unsplit, GetColumnRepresentative(k, ptr)))
              ELSE Returned(ptr)
        s2 == IF options.hasSmallClusters
              THEN SetColumnRepresentative(k, columns, s1.rep,
                       MapTypes(Narrow, GetColumnRepresentative(k, s1.rep)))
              ELSE Returned(s1.rep)
    IN  IF s1.outcome # "ok" THEN s1 ELSE s2

\* The result of AutoAdjustColumnTypes(options): the three steps in order, an
\* exception of SetColumnRepresentative ending the call with the
\* representative as the earlier steps left it.
AutoAdjustColumnTypes(k, columns, ptr, alias, options) ==
    LET s1 == IF options.compression = 0 /\ HasDefaultColumnRepresentative(ptr)
              THEN SetColumnRepresentative(k, columns, ptr,
                       MapTypes(Unsplit, GetColumnRepresentative(k, ptr)))
              ELSE Returned(ptr)
        s2 == IF options.hasSmallClusters
              THEN SetColumnRepresentative(k, columns, s1.rep,
                       MapTypes(Narrow, GetColumnRepresentative(k, s1.rep)))
              ELSE Returned(s1.rep)
        s3 == IF alias = "Double32_t"
              THEN SetColumnRepresentative(k, columns, s2.rep, <<"kSplitReal32">>)
              ELSE Returned(s2.rep)
    IN  IF s1.outcome # "ok" THEN s1
        ELSE IF s2.outcome # "ok" THEN s2
        ELSE s3

-----------------------------------------------------------------------------
(* Columns *)

\* RColumn::Create<T>(RColumnModel(type), index): a column not yet connected.
Column(type, index) ==
    [type |-> type, index |-> index, to |-> "none", firstElementIndex |-> 0]

IsDense(k, ptr) == GetColumnRepresentative(k, ptr)[1] = "kBit"

\* GenerateColumnsImpl() of the kinds with one column (RField<ClusterSize_t>
\* and every kind of the same shape).
OneColumnGenerateColumnsImpl(k, ptr) ==
    [outcome |-> "ok", msg |-> "", rep |-> ptr,
     columns |-> << Column(GetColumnRepresentative(k, ptr)[1], 0) >>]

\* RField<std::string>::GenerateColumnsImpl()
StringGenerateColumnsImpl(k, ptr) ==
    [outcome |-> "ok", msg |-> "", rep |-> ptr,
     columns |-> << Column(GetColumnRepresentative(k, ptr)[1], 0),
                    Column(GetColumnRepresentative(k, ptr)[2], 1) >>]

\* RNullableField::GenerateColumnsImpl()
NullableGenerateColumnsImpl(k, ptr, itemSize) ==
    LET s == IF HasDefaultColumnRepresentative(ptr) /\ itemSize < 4
             THEN SetColumnRepresentative(k, <<>>, ptr, <<"kBit">>)
             ELSE Returned(ptr)
    IN  IF s.outcome # "ok"
        THEN [outcome |-> s.outcome, msg |-> s.msg, rep |-> s.rep, columns |-> <<>>]
        ELSE [outcome |-> "ok", msg |-> "", rep |-> s.rep,
              columns |-> IF IsDense(k, s.rep)
                          THEN << Column("kBit", 0) >>
                          ELSE << Column(GetColumnRepresentative(k, s.rep)[1], 0) >>]

\* GenerateColumnsImpl() of the kinds that bind no column.
NoColumnGenerateColumnsImpl(k, ptr) ==
    [outcome |-> "ok", msg |-> "", rep |-> ptr, columns |-> <<>>]

\* Virtual dispatch of GenerateColumnsImpl().
GenerateColumnsImpl(k, ptr, itemSize) ==
    CASE k \in OneColumnKinds -> OneColumnGenerateColumnsImpl(k, ptr)
      [] k = "String" -> StringGenerateColumnsImpl(k, ptr)
      [] k = "Nullable" -> NullableGenerateColumnsImpl(k, ptr, itemSize)
      [] OTHER -> NoColumnGenerateColumnsImpl(k, ptr)

-----------------------------------------------------------------------------
(* EntryToColumnElementIndex *)

RECURSIVE EntryToColumnElementIndexFrom(_, _, _)
\* The loop from position i of the chain (the field first, the root last)
\* with the running result.
EntryToColumnElementIndexFrom(chain, i, result) ==
    IF i > Len(chain) THEN result
    ELSE IF i < Len(chain) /\ chain[i + 1].structure \in {"kCollection", "kVariant"}
         THEN 0
         ELSE EntryToColumnElementIndexFrom(chain, i + 1,
                  result * (IF chain[i].nRepetitions > 1 THEN chain[i].nRepetitions ELSE 1))

\* The loop without the test of the parent's structure.
EntryToColumnElementIndex_NeverZero(nRepetitions, parents, globalIndex) ==
    EntryToColumnElementIndexFrom(
        << [structure |-> "self", nRepetitions |-> nRepetitions] >>
            \o [i \in 1..Len(parents) |-> [structure |-> "kRecord",
                                           nRepetitions |-> parents[i].nRepetitions]],
        1, globalIndex)

EntryToColumnElementIndex(nRepetitions, parents, globalIndex) ==
    EntryToColumnElementIndexFrom(
        << [structure |-> "self", nRepetitions |-> nRepetitions] >> \o parents,
        1, globalIndex)

-----------------------------------------------------------------------------
(* Connecting to a page source *)

EnsureCompatibleColumnTypes_AcceptsAnyList(k, onDiskId, onDiskTypes) ==
    IF onDiskId = kInvalidDescriptorId
    THEN [outcome |-> "throw", msg |-> "No on-disk column information", types |-> <<>>]
    ELSE [outcome |-> "ok", msg |-> "", types |-> onDiskTypes]

EnsureCompatibleColumnTypes_IgnoresOnDiskId(k, onDiskId, onDiskTypes) ==
    IF \E i \in 1..Len(GetDeserializationTypes(k)) :
           GetDeserializationTypes(k)[i] = onDiskTypes
    THEN [outcome |-> "ok", msg |-> "", types |-> onDiskTypes]
    ELSE [outcome |-> "throw", msg |-> "On-disk column types cannot be matched",
          types |-> <<>>]

\* EnsureCompatibleColumnTypes(desc), onDiskTypes being the types of the
\* columns that desc lists for onDiskId.
EnsureCompatibleColumnTypes(k, onDiskId, onDiskTypes) ==
    IF onDiskId = kInvalidDescriptorId
    THEN [outcome |-> "throw", msg |-> "No on-disk column information", types |-> <<>>]
    ELSE IF \E i \in 1..Len(GetDeserializationTypes(k)) :
                GetDeserializationTypes(k)[i] = onDiskTypes
         THEN [outcome |-> "ok", msg |-> "", types |-> onDiskTypes]
         ELSE [outcome |-> "throw", msg |-> "On-disk column types cannot be matched",
               types |-> <<>>]

Generated(columns) == [outcome |-> "ok", msg |-> "", columns |-> columns]
NotGenerated(outcome, msg) == [outcome |-> outcome, msg |-> msg, columns |-> <<>>]

\* onDiskTypes[0] of an empty list reads past the end of the vector: the
\* build may yield any element type, a value that is no element type, or
\* crash.
FirstType(onDiskTypes) ==
    IF onDiskTypes # <<>> THEN {onDiskTypes[1]} ELSE ColumnTypes \cup {"kUnknown"}

MayCrash(onDiskTypes) ==
    IF onDiskTypes # <<>> THEN {} ELSE {NotGenerated("abort", "out-of-bounds read")}

\* GenerateColumnsImpl(desc) of the kinds with one column: the set of
\* possible results.
OneColumnGenerateColumnsFromDesc(k, onDiskId, onDiskList) ==
    LET e == EnsureCompatibleColumnTypes(k, onDiskId, onDiskList)
    IN  IF e.outcome # "ok" THEN {NotGenerated(e.outcome, e.msg)}
        ELSE {Generated(<< Column(t, 0) >>) : t \in FirstType(e.types)}
             \cup MayCrash(e.types)

\* RField<std::string>::GenerateColumnsImpl(desc)
StringGenerateColumnsFromDesc(k, onDiskId, onDiskList) ==
    LET e == EnsureCompatibleColumnTypes(k, onDiskId, onDiskList)
    IN  IF e.outcome # "ok" THEN {NotGenerated(e.outcome, e.msg)}
        ELSE {Generated(<< Column(e.types[1], 0), Column(e.types[2], 1) >>)}

\* RNullableField::GenerateColumnsImpl(desc)
NullableGenerateColumnsFromDesc(k, onDiskId, onDiskList) ==
    LET e == EnsureCompatibleColumnTypes(k, onDiskId, onDiskList)
    IN  IF e.outcome # "ok" THEN {NotGenerated(e.outcome, e.msg)}
        ELSE IF e.types[1] = "kBit" THEN {Generated(<< Column("kBit", 0) >>)}
             ELSE {Generated(<< Column(e.types[1], 0) >>)}

\* GenerateColumnsImpl(desc) of the kinds that bind no column: the on-disk
\* list is located in the deserialization list and no column is created.
NoColumnGenerateColumnsFromDesc(k, onDiskId, onDiskList) ==
    LET e == EnsureCompatibleColumnTypes(k, onDiskId, onDiskList)
    IN  IF e.outcome # "ok" THEN {NotGenerated(e.outcome, e.msg)}
        ELSE {Generated(<<>>)}

\* Virtual dispatch of GenerateColumnsImpl(desc).
GenerateColumnsFromDesc(k, onDiskId, onDiskList) ==
    CASE k \in OneColumnKinds -> OneColumnGenerateColumnsFromDesc(k, onDiskId, onDiskList)
      [] k = "String" -> StringGenerateColumnsFromDesc(k, onDiskId, onDiskList)
      [] k = "Nullable" -> NullableGenerateColumnsFromDesc(k, onDiskId, onDiskList)
      [] OTHER -> NoColumnGenerateColumnsFromDesc(k, onDiskId, onDiskList)

TypesOf(columns) == [i \in 1..Len(columns) |-> columns[i].type]

\* The loop over the deserialization list in ConnectPageSource: the pointer
\* to the last row equal to the types of the generated columns.
MatchDeserializationRow(k, columns) ==
    LET rows == GetDeserializationTypes(k)
        hits == {i \in 1..Len(rows) : rows[i] = TypesOf(columns)}
    IN  IF hits = {} THEN nullptr
        ELSE <<"deser", CHOOSE i \in hits : \A j \in hits : j <= i>>

-----------------------------------------------------------------------------
(* Connecting the generated columns *)

PrincipalOf(columns) == IF columns # <<>> THEN 1 ELSE 0

ConnectToSink_EveryColumnAtFirstEntry(columns, principal, firstElementIndex) ==
    [i \in 1..Len(columns) |->
        [columns[i] EXCEPT !.to = "sink", !.firstElementIndex = firstElementIndex]]

\* The loop of ConnectPageSink over fColumns.
ConnectToSink(columns, principal, firstElementIndex) ==
    [i \in 1..Len(columns) |->
        [columns[i] EXCEPT !.to = "sink",
                           !.firstElementIndex =
                               IF i = principal THEN firstElementIndex ELSE 0]]

\* The loop of ConnectPageSource over fColumns.
ConnectToSource(columns) ==
    [i \in 1..Len(columns) |-> [columns[i] EXCEPT !.to = "source"]]

-----------------------------------------------------------------------------
(* State machine *)

DefaultOptions == [compression |-> 505, hasSmallClusters |-> FALSE]

WriteOptions == [compression : {0, 505}, hasSmallClusters : BOOLEAN]

NoCall ==
    [op |-> "none", outcome |-> "ok", msg |-> "",
     representative |-> <<>>,        \* argument of SetColumnRepresentative
     options |-> DefaultOptions,     \* pageSink.GetWriteOptions()
     firstEntry |-> 0,               \* argument of ConnectPageSink
     onDisk |-> <<>>,                \* column types the descriptor lists for fOnDiskId
     typeVersion |-> 0,              \* type version the descriptor holds for fOnDiskId
     preRepresentative |-> nullptr,  \* fColumnRepresentative when the call began
     preConnected |-> "none",        \* connected when the call began
     adjusted |-> nullptr]           \* fColumnRepresentative after AutoAdjustColumnTypes

AncestorNodes ==
    {[structure |-> st, nRepetitions |-> 0] : st \in {"kRecord", "kCollection", "kVariant"}}
        \cup {[structure |-> "kLeaf", nRepetitions |-> MaxRepetitions]}

AncestorChains == UNION {[1..n -> AncestorNodes] : n \in 0..MaxDepth}

Init ==
    /\ kind \in Kinds
    /\ fTypeAlias \in (IF kind = "Double" THEN {"", "Double32_t", "MyDouble_t"} ELSE {""})
    /\ fNRepetitions \in (IF kind \in {"Array", "Bitset"} THEN 1..MaxRepetitions ELSE {0})
    /\ itemValueSize \in (IF kind = "Nullable" THEN 1..MaxItemSize ELSE {0})
    /\ ancestors \in AncestorChains
    /\ fOnDiskId \in {kInvalidDescriptorId, 1}
    /\ fOnDiskTypeVersion = kInvalidTypeVersion
    /\ fColumnRepresentative = nullptr
    /\ fColumns = <<>>
    /\ fPrincipalColumn = 0
    /\ connected = "none"
    /\ status = "running"
    /\ lastCall = NoCall
    /\ OutsideBindingIdle

\* A field that takes no part in the binding protocol.
BindingIdle ==
    /\ kind = "Record"
    /\ fTypeAlias = ""
    /\ fNRepetitions = 0
    /\ itemValueSize = 0
    /\ ancestors = <<>>
    /\ fOnDiskId = kInvalidDescriptorId
    /\ fOnDiskTypeVersion = kInvalidTypeVersion
    /\ fColumnRepresentative = nullptr
    /\ fColumns = <<>>
    /\ fPrincipalColumn = 0
    /\ connected = "none"
    /\ status = "running"
    /\ lastCall = NoCall

Construction == <<kind, fTypeAlias, fNRepetitions, itemValueSize, ancestors, fOnDiskId>>

\* A call of SetColumnRepresentative(representative).
CallSetColumnRepresentative ==
    /\ status = "running"
    /\ \E representative \in CandidateRows(kind) :
        LET r == SetColumnRepresentative(kind, fColumns, fColumnRepresentative,
                                         representative)
        IN  /\ fColumnRepresentative' = r.rep
            /\ lastCall' = [NoCall EXCEPT !.op = "SetColumnRepresentative",
                                          !.outcome = r.outcome, !.msg = r.msg,
                                          !.representative = representative,
                                          !.preRepresentative = fColumnRepresentative,
                                          !.preConnected = connected]
    /\ UNCHANGED <<Construction, fOnDiskTypeVersion, fColumns, fPrincipalColumn,
                   connected, status>>
    /\ UNCHANGED OutsideBinding

\* A call of ConnectPageSink(pageSink, firstEntry), under its precondition
\* R__ASSERT(fColumns.empty()).  Cardinality fields are read-only and are not
\* connected to a sink.
ConnectPageSink ==
    /\ status = "running"
    /\ fColumns = <<>>
    /\ kind # "Cardinality"
    /\ \E options \in WriteOptions, firstEntry \in 0..MaxEntry :
        LET call == [NoCall EXCEPT !.op = "ConnectPageSink", !.options = options,
                                   !.firstEntry = firstEntry,
                                   !.preRepresentative = fColumnRepresentative,
                                   !.preConnected = connected]
            a == AutoAdjustColumnTypes(kind, fColumns, fColumnRepresentative,
                                       fTypeAlias, options)
            g == GenerateColumnsImpl(kind, a.rep, itemValueSize)
            principal == PrincipalOf(g.columns)
        IN  IF a.outcome # "ok"
            THEN /\ fColumnRepresentative' = a.rep
                 /\ lastCall' = [call EXCEPT !.outcome = a.outcome, !.msg = a.msg,
                                             !.adjusted = a.rep]
                 /\ UNCHANGED <<fColumns, fPrincipalColumn, connected, status>>
            ELSE IF g.outcome # "ok"
            THEN /\ fColumnRepresentative' = g.rep
                 /\ lastCall' = [call EXCEPT !.outcome = g.outcome, !.msg = g.msg,
                                             !.adjusted = a.rep]
                 /\ UNCHANGED <<fColumns, fPrincipalColumn, connected, status>>
            ELSE /\ fColumnRepresentative' = g.rep
                 /\ fPrincipalColumn' = principal
                 /\ fColumns' = ConnectToSink(g.columns, principal,
                                    EntryToColumnElementIndex(fNRepetitions, ancestors,
                                                              firstEntry))
                 /\ connected' = "sink"
                 /\ lastCall' = [call EXCEPT !.adjusted = a.rep]
                 /\ UNCHANGED status
    /\ UNCHANGED <<Construction, fOnDiskTypeVersion>>
    /\ UNCHANGED OutsideBinding

\* A call of ConnectPageSource(pageSource), under its precondition
\* R__ASSERT(fColumns.empty()), the descriptor of pageSource listing columns
\* of the types onDisk for fOnDiskId.
ConnectPageSource ==
    /\ status = "running"
    /\ fColumns = <<>>
    /\ \E onDisk \in CandidateRows(kind), typeVersion \in 1..MaxTypeVersion :
        LET call == [NoCall EXCEPT !.op = "ConnectPageSource", !.onDisk = onDisk,
                                   !.typeVersion = typeVersion,
                                   !.preRepresentative = fColumnRepresentative,
                                   !.preConnected = connected]
        IN  IF fColumnRepresentative # nullptr
            THEN /\ lastCall' = [call EXCEPT !.outcome = "throw",
                       !.msg = "fixed column representative only valid when connecting to a page sink"]
                 /\ UNCHANGED <<fOnDiskTypeVersion, fColumnRepresentative, fColumns,
                                fPrincipalColumn, connected, status>>
            ELSE \E g \in GenerateColumnsFromDesc(kind, fOnDiskId, onDisk) :
                LET rep == MatchDeserializationRow(kind, g.columns)
                IN  IF g.outcome = "throw"
                    THEN /\ lastCall' = [call EXCEPT !.outcome = "throw", !.msg = g.msg]
                         /\ UNCHANGED <<fOnDiskTypeVersion, fColumnRepresentative, fColumns,
                                        fPrincipalColumn, connected, status>>
                    ELSE IF g.outcome = "abort"
                    THEN /\ status' = "aborted"
                         /\ lastCall' = [call EXCEPT !.outcome = "abort", !.msg = g.msg]
                         /\ UNCHANGED <<fOnDiskTypeVersion, fColumnRepresentative, fColumns,
                                        fPrincipalColumn, connected>>
                    ELSE IF rep = nullptr
                    THEN /\ status' = "aborted"
                         /\ fColumns' = g.columns
                         /\ lastCall' = [call EXCEPT !.outcome = "abort",
                                             !.msg = "R__ASSERT(fColumnRepresentative)"]
                         /\ UNCHANGED <<fOnDiskTypeVersion, fColumnRepresentative,
                                        fPrincipalColumn, connected>>
                    ELSE /\ fColumnRepresentative' = rep
                         /\ fOnDiskTypeVersion' =
                                IF fOnDiskId # kInvalidDescriptorId THEN typeVersion
                                ELSE fOnDiskTypeVersion
                         /\ fPrincipalColumn' = PrincipalOf(g.columns)
                         /\ fColumns' = ConnectToSource(g.columns)
                         /\ connected' = "source"
                         /\ lastCall' = call
                         /\ UNCHANGED status
    /\ UNCHANGED Construction
    /\ UNCHANGED OutsideBinding

Next ==
    \/ CallSetColumnRepresentative
    \/ ConnectPageSink
    \/ ConnectPageSource

Spec == Init /\ [][Next]_vars

-----------------------------------------------------------------------------
(* Properties of the binding protocol *)

SerializationRows(k) == Range(GetSerializationTypes(k))
DeserializationRows(k) == Range(GetDeserializationTypes(k))

\* C1: once the field is connected (to a sink or to a source), every call
\* of SetColumnRepresentative raises and leaves the representative as it
\* was, whatever number of columns the kind binds.
C1_SetAfterConnectRaises ==
    (lastCall.op = "SetColumnRepresentative" /\ lastCall.preConnected # "none")
        => /\ lastCall.outcome = "throw"
           /\ fColumnRepresentative = lastCall.preRepresentative

\* C2: on an unconnected field SetColumnRepresentative(rep) succeeds exactly
\* when rep is a row of the serialization list, and GetColumnRepresentative
\* then returns rep; for any other rep it raises and the representative
\* chosen before is unchanged.
C2_SetOnUnconnectedField ==
    (lastCall.op = "SetColumnRepresentative" /\ lastCall.preConnected = "none")
        => IF lastCall.representative \in SerializationRows(kind)
           THEN /\ lastCall.outcome = "ok"
                /\ fColumnRepresentative # nullptr
                /\ GetColumnRepresentative(kind, fColumnRepresentative)
                       = lastCall.representative
           ELSE /\ lastCall.outcome = "throw"
                /\ fColumnRepresentative = lastCall.preRepresentative

\* A row that is only in the deserialization list is refused and the
\* representative chosen by an earlier call is kept.
C2_Witness ==
    /\ lastCall.op = "SetColumnRepresentative"
    /\ lastCall.preConnected = "none"
    /\ lastCall.representative \in DeserializationRows(kind) \ SerializationRows(kind)
    /\ lastCall.outcome = "throw"
    /\ lastCall.preRepresentative # nullptr
    /\ fColumnRepresentative = lastCall.preRepresentative

C4_SourceColumnsMatchOnDisk ==
    (lastCall.op = "ConnectPageSource" /\ lastCall.outcome = "ok")
        => /\ TypesOf(fColumns) = lastCall.onDisk
           /\ fColumnRepresentative # nullptr
           /\ fColumnRepresentative[1] = "deser"
           /\ Deref(kind, fColumnRepresentative) = lastCall.onDisk

C6_NullableDenseIffSmallItem ==
    (/\ kind = "Nullable"
     /\ lastCall.op = "ConnectPageSink"
     /\ lastCall.outcome = "ok"
     /\ lastCall.preRepresentative = nullptr)
        => /\ fPrincipalColumn = 1
           /\ (fColumns[fPrincipalColumn].type = "kBit") <=> (itemValueSize < 4)

\* C7: after AutoAdjustColumnTypes with compression disabled on a field
\* with its default representative, no column type of the representative is
\* a split encoding.
C7_NoSplitTypeWithoutCompression ==
    (/\ lastCall.op = "ConnectPageSink"
     /\ lastCall.options.compression = 0
     /\ lastCall.preRepresentative = nullptr)
        => \A i \in 1..Len(GetColumnRepresentative(kind, lastCall.adjusted)) :
               GetColumnRepresentative(kind, lastCall.adjusted)[i] \notin SplitTypes

\* The representative in effect before the small-clusters step of
\* AutoAdjustColumnTypes, from the state in which the call began.
BeforeNarrowing ==
    IF lastCall.options.compression = 0 /\ lastCall.preRepresentative = nullptr
    THEN MapTypes(Unsplit, GetSerializationDefault(kind))
    ELSE GetColumnRepresentative(kind, lastCall.preRepresentative)

Real32Types == {"kSplitReal32", "kReal32"}

\* C9: for a field with type alias Double32_t the representative after
\* AutoAdjustColumnTypes, and the column ConnectPageSink creates, is a 32-bit
\* real type, under every combination of write options and whether the
\* representative was the default or set by the caller.
C9_Double32ForcesReal32 ==
    (lastCall.op = "ConnectPageSink" /\ fTypeAlias = "Double32_t")
        => /\ lastCall.outcome = "ok"
           /\ Len(GetColumnRepresentative(kind, lastCall.adjusted)) = 1
           /\ GetColumnRepresentative(kind, lastCall.adjusted)[1] \in Real32Types
           /\ Len(fColumns) = 1
           /\ fColumns[1].type \in Real32Types

\* A Double32_t field whose caller had fixed 64-bit real storage, written
\* without compression.
C9_Witness ==
    /\ lastCall.op = "ConnectPageSink"
    /\ fTypeAlias = "Double32_t"
    /\ lastCall.preRepresentative # nullptr
    /\ Deref(kind, lastCall.preRepresentative) = <<"kReal64">>
    /\ lastCall.options.compression = 0
    /\ connected = "sink"

\* C10: on a connected field the principal column is the first column when
\* there is a column and there is none otherwise; ConnectPageSink connects
\* the principal column at EntryToColumnElementIndex(firstEntry) and every
\* other column at 0.
C10_PrincipalIsFirstColumn ==
    /\ connected # "none" =>
           /\ fColumns # <<>> => fPrincipalColumn = 1
           /\ fColumns = <<>> => fPrincipalColumn = 0
           /\ \A i \in 1..Len(fColumns) : fColumns[i].to = connected
    /\ (lastCall.op = "ConnectPageSink" /\ lastCall.outcome = "ok") =>
           \A i \in 1..Len(fColumns) :
               fColumns[i].firstElementIndex =
                   IF i = 1
                   THEN EntryToColumnElementIndex(fNRepetitions, ancestors,
                                                  lastCall.firstEntry)
                   ELSE 0

\* A string field below a fixed-length array, connected at a later entry:
\* the index column starts at a positive element index, the char column at 0.
C10_Witness ==
    /\ connected = "sink"
    /\ lastCall.op = "ConnectPageSink"
    /\ Len(fColumns) = 2
    /\ fPrincipalColumn = 1
    /\ fColumns[1].firstElementIndex > lastCall.firstEntry
    /\ fColumns[2].firstElementIndex = 0

\* std::max(n, std::size_t{1U})
AtLeastOne(n) == IF n > 1 THEN n ELSE 1

RECURSIVE RepetitionsAbove(_, _)
\* The product of max(nRepetitions, 1) over the ancestors from position i on.
RepetitionsAbove(chain, i) ==
    IF i > Len(chain) THEN 1
    ELSE AtLeastOne(chain[i].nRepetitions) * RepetitionsAbove(chain, i + 1)

\* The field or one of its ancestors has a parent that is a collection or a variant.
BelowCollectionOrVariant ==
    \E i \in 1..Len(ancestors) : ancestors[i].structure \in {"kCollection", "kVariant"}

\* The kinds whose own structure is kCollection or kVariant.
CollectionOrVariantKinds ==
    {"CollectionClass", "Vector", "RVec", "VectorBool", "Variant", "Collection", "Nullable"}

-----------------------------------------------------------------------------
(* Write path of collections and strings: AppendImpl and CommitCluster *)

MaxAppends == 3
MaxCount == 5
MaxCommits == 2

CollectionKinds == {"Vector", "RVec", "VectorBool", "CollectionClass"}
AppendKinds == CollectionKinds \cup {"String"}

\* fNWritten += count; fColumns[0]->Append(&fNWritten): the element appended
\* to the index column is the counter after the addition.
AppendImpl_WritesCount(nWritten, count) ==
    [counter |-> nWritten + count, appended |-> count]

AppendImpl(nWritten, count) ==
    [counter |-> nWritten + count, appended |-> nWritten + count]

\* RField<std::string>::AppendImpl: fIndex += length; fColumns[0]->Append(&fIndex)
StringAppendImpl(index, length) ==
    [counter |-> index + length, appended |-> index + length]

\* CommitCluster of the collection kinds: fNWritten = 0
CollectionCommitCluster(nWritten) == 0

\* RField<std::string>::CommitCluster: fIndex = 0
StringCommitCluster_KeepsIndex(index) == index

StringCommitCluster(index) == 0

\* The field after ConnectPageSink with the default write options: the
\* representative stays the default one and the columns are bound to the sink.
ConnectedToSink ==
    LET g == GenerateColumnsImpl(kind, nullptr, 0)
    IN  /\ fTypeAlias = ""
        /\ fNRepetitions = 0
        /\ itemValueSize = 0
        /\ ancestors = <<>>
        /\ fOnDiskId = kInvalidDescriptorId
        /\ fOnDiskTypeVersion = kInvalidTypeVersion
        /\ fColumnRepresentative = g.rep
        /\ fColumns = ConnectToSink(g.columns, PrincipalOf(g.columns), 0)
        /\ fPrincipalColumn = PrincipalOf(g.columns)
        /\ connected = "sink"
        /\ status = "running"
        /\ lastCall = [NoCall EXCEPT !.op = "ConnectPageSink"]

AppendInit ==
    /\ kind \in AppendKinds
    /\ ConnectedToSink
    /\ AppendIdle
    /\ OutsideAppendIdle

\* Append of a collection value of `count` items: every item goes to the item
\* field, then the running count goes to the index column.
CollectionAppend(count) ==
    LET a == AppendImpl(fNWritten, count)
    IN  /\ fColumns # <<>>
        /\ Len(entries) < MaxAppends
        /\ fNWritten' = a.counter
        /\ indexColumn' = Append(indexColumn, a.appended)
        /\ nItemsAppended' = nItemsAppended + count
        /\ entries' = Append(entries, [count |-> count, cluster |-> nCommits])
        /\ UNCHANGED <<fIndex, nCommits, bindingVars, OutsideAppend>>

RVectorFieldAppendImpl ==
    kind = "Vector" /\ \E count \in 0..MaxCount : CollectionAppend(count)

RRVecFieldAppendImpl ==
    kind = "RVec" /\ \E count \in 0..MaxCount : CollectionAppend(count)

VectorBoolAppendImpl ==
    kind = "VectorBool" /\ \E count \in 0..MaxCount : CollectionAppend(count)

RCollectionClassFieldAppendImpl ==
    kind = "CollectionClass" /\ \E count \in 0..MaxCount : CollectionAppend(count)

CollectionCommit ==
    /\ nCommits < MaxCommits
    /\ fNWritten' = CollectionCommitCluster(fNWritten)
    /\ nCommits' = nCommits + 1
    /\ UNCHANGED <<fIndex, indexColumn, nItemsAppended, entries, bindingVars, OutsideAppend>>

RVectorFieldCommitCluster == kind = "Vector" /\ CollectionCommit

RRVecFieldCommitCluster == kind = "RVec" /\ CollectionCommit

RCollectionClassFieldCommitCluster == kind = "CollectionClass" /\ CollectionCommit

\* CommitCluster of RField<std::vector<bool>>, as of the other collection kinds.
VectorBoolCommitCluster == kind = "VectorBool" /\ CollectionCommit

StringFieldAppendImpl ==
    /\ kind = "String"
    /\ Len(fColumns) = 2
    /\ Len(entries) < MaxAppends
    /\ \E length \in 0..MaxCount :
        LET a == StringAppendImpl(fIndex, length)
        IN  /\ fIndex' = a.counter
            /\ indexColumn' = Append(indexColumn, a.appended)
            /\ nItemsAppended' = nItemsAppended + length
            /\ entries' = Append(entries, [count |-> length, cluster |-> nCommits])
    /\ UNCHANGED <<fNWritten, nCommits, bindingVars, OutsideAppend>>

StringFieldCommitCluster ==
    /\ kind = "String"
    /\ nCommits < MaxCommits
    /\ fIndex' = StringCommitCluster(fIndex)
    /\ nCommits' = nCommits + 1
    /\ UNCHANGED <<fNWritten, indexColumn, nItemsAppended, entries, bindingVars, OutsideAppend>>

AppendNext ==
    \/ RVectorFieldAppendImpl
    \/ RRVecFieldAppendImpl
    \/ VectorBoolAppendImpl
    \/ RCollectionClassFieldAppendImpl
    \/ RVectorFieldCommitCluster
    \/ RRVecFieldCommitCluster
    \/ RCollectionClassFieldCommitCluster
    \/ VectorBoolCommitCluster
    \/ StringFieldAppendImpl
    \/ StringFieldCommitCluster

SpecAppend == AppendInit /\ [][AppendNext]_vars

-----------------------------------------------------------------------------
(* Properties of the write path *)

RECURSIVE CountsUpTo(_, _)
\* Sum of the counts of entries 1..k.
CountsUpTo(log, k) == IF k = 0 THEN 0 ELSE log[k].count + CountsUpTo(log, k - 1)

RECURSIVE CountsInClusterUpTo(_, _, _)
\* Sum of the counts of those entries 1..k that belong to cluster c.
CountsInClusterUpTo(log, c, k) ==
    IF k = 0 THEN 0
    ELSE (IF log[k].cluster = c THEN log[k].count ELSE 0)
             + CountsInClusterUpTo(log, c, k - 1)

\* C11 (as stated): for every collection field and every sequence of Append
\* and CommitCluster, the index written by the Append of entry k is the sum of
\* the element counts of entries 0..k.
C11_IndexIsSumOverAllEntries ==
    kind \in CollectionKinds =>
        /\ Len(indexColumn) = Len(entries)
        /\ \A k \in 1..Len(entries) : indexColumn[k] = CountsUpTo(entries, k)

\* C11 (amended): the index written by the Append of entry k is the sum of the
\* element counts of the entries appended since the most recent CommitCluster
\* (of entries 0..k when no cluster was committed before entry k).
C11_IndexIsSumWithinCluster ==
    kind \in CollectionKinds =>
        /\ Len(indexColumn) = Len(entries)
        /\ \A k \in 1..Len(entries) :
              indexColumn[k] = CountsInClusterUpTo(entries, entries[k].cluster, k)

\* A collection field that appended a non-empty value, committed the cluster
\* and appended two more non-empty values.
C11_Witness ==
    /\ kind \in CollectionKinds
    /\ Len(entries) = 3
    /\ entries[1].cluster = 0 /\ entries[1].count > 0
    /\ entries[2].cluster = 1 /\ entries[2].count > 0
    /\ entries[3].cluster = 1 /\ entries[3].count > 0

\* C12: for a string field, the index written by each Append is the number of
\* characters appended since the most recent CommitCluster (since connection
\* if there was none); the index column is non-decreasing within a cluster and
\* the first index after a CommitCluster is the length of that first string.
C12_StringIndexIsCharsSinceCommit ==
    kind = "String" =>
        /\ Len(indexColumn) = Len(entries)
        /\ \A k \in 1..Len(entries) :
              /\ indexColumn[k] = CountsInClusterUpTo(entries, entries[k].cluster, k)
              /\ (k > 1 /\ entries[k - 1].cluster = entries[k].cluster)
                     => indexColumn[k - 1] <= indexColumn[k]
              /\ (k = 1 \/ (k > 1 /\ entries[k - 1].cluster # entries[k].cluster))
                     => indexColumn[k] = entries[k].count

\* The strings "hello", "" and a 3-byte string, appended after a committed
\* cluster: the index column holds 5, 5, 8.
C12_Witness ==
    /\ kind = "String"
    /\ nCommits >= 1
    /\ Len(entries) = 3
    /\ \A k \in 1..3 : entries[k].cluster = nCommits
    /\ <<entries[1].count, entries[2].count, entries[3].count>> = <<5, 0, 3>>
    /\ indexColumn = <<5, 5, 8>>

-----------------------------------------------------------------------------
(* Read path of RUniquePtrField *)

MaxReadEntries == 3
MaxObjects == 3

kInvalidClusterIndex == -1

\* AppendNull that writes 0 instead of the running count.
AppendNull_WritesZero(dense, nWritten) ==
    [counter |-> nWritten, appended |-> IF dense THEN FALSE ELSE 0]

\* RNullableField::AppendNull: the element appended to the principal column.
AppendNull(dense, nWritten) ==
    [counter |-> nWritten, appended |-> IF dense THEN FALSE ELSE nWritten]

\* RNullableField::AppendValue
AppendValue(dense, nWritten) ==
    IF dense THEN [counter |-> nWritten, appended |-> TRUE]
             ELSE [counter |-> nWritten + 1, appended |-> nWritten + 1]

RECURSIVE WritePrincipalColumn(_, _, _, _)
\* The principal column after RUniquePtrField::AppendImpl of the entries k..
\* of `values` (TRUE for a non-null pointer), one cluster.
WritePrincipalColumn(dense, values, k, nWritten) ==
    IF k > Len(values) THEN <<>>
    ELSE LET a == IF values[k] THEN AppendValue(dense, nWritten)
                               ELSE AppendNull(dense, nWritten)
         IN  <<a.appended>> \o WritePrincipalColumn(dense, values, k + 1, a.counter)

\* RColumn::GetCollectionInfo on an index column of one cluster: the start is
\* the previous element (0 for the first entry), the size the difference.
GetCollectionInfo(column, globalIndex) ==
    LET start == IF globalIndex = 0 THEN 0 ELSE column[globalIndex]
    IN  [collectionStart |-> start, collectionSize |-> column[globalIndex + 1] - start]

\* RNullableField::GetItemIndex
GetItemIndex(dense, column, globalIndex) ==
    IF dense
    THEN IF column[globalIndex + 1] THEN globalIndex ELSE kInvalidClusterIndex
    ELSE LET info == GetCollectionInfo(column, globalIndex)
         IN  IF info.collectionSize = 0 THEN kInvalidClusterIndex
             ELSE info.collectionStart

\* An item object: constructed by GenerateValueBy, not yet read into.
GenerateValueBy == [state |-> "constructed", value |-> kInvalidClusterIndex]

\* DestroyValueBy(item, ptr, false): the destructor runs and the memory is freed.
DestroyValueBy(object) == [object EXCEPT !.state = "freed"]

\* fSubFields[0]->Read(itemIndex, valuePtr)
ReadItem(object, itemIndex) == [object EXCEPT !.value = itemIndex]

ReadGlobalImpl_KeepsPointeeOfMissingEntry(dense, column, p, objects, globalIndex) ==
    LET itemIndex == GetItemIndex(dense, column, globalIndex)
        isValidItem == itemIndex # kInvalidClusterIndex
        fresh == Len(objects) + 1
    IN  IF ~isValidItem
        THEN [uniquePtr |-> p, heap |-> objects, itemReads |-> <<>>]
        ELSE IF p = 0
        THEN [uniquePtr |-> fresh,
              heap |-> Append(objects, ReadItem(GenerateValueBy, itemIndex)),
              itemReads |-> << [itemIndex |-> itemIndex, object |-> fresh] >>]
        ELSE [uniquePtr |-> p,
              heap |-> [objects EXCEPT ![p] = ReadItem(@, itemIndex)],
              itemReads |-> << [itemIndex |-> itemIndex, object |-> p] >>]

\* RUniquePtrField::ReadGlobalImpl(globalIndex, to), with *to = p.
UniquePtrReadGlobalImpl(dense, column, p, objects, globalIndex) ==
    LET isValidValue == p # 0
        itemIndex == GetItemIndex(dense, column, globalIndex)
        isValidItem == itemIndex # kInvalidClusterIndex
        fresh == Len(objects) + 1
    IN  IF isValidValue /\ ~isValidItem
        THEN [uniquePtr |-> 0,
              heap |-> [objects EXCEPT ![p] = DestroyValueBy(@)],
              itemReads |-> <<>>]
        ELSE IF ~isValidItem
        THEN [uniquePtr |-> p, heap |-> objects, itemReads |-> <<>>]
        ELSE IF ~isValidValue
        THEN [uniquePtr |-> fresh,
              heap |-> Append(objects, ReadItem(GenerateValueBy, itemIndex)),
              itemReads |-> << [itemIndex |-> itemIndex, object |-> fresh] >>]
        ELSE [uniquePtr |-> p,
              heap |-> [objects EXCEPT ![p] = ReadItem(@, itemIndex)],
              itemReads |-> << [itemIndex |-> itemIndex, object |-> p] >>]

\* The nullable field after ConnectPageSource on a descriptor that lists the
\* column types of row `row` of the deserialization list.
ConnectedToSource(row) ==
    LET types == GetDeserializationTypes(kind)[row]
    IN  /\ fTypeAlias = ""
        /\ fNRepetitions = 0
        /\ itemValueSize \in {1, MaxItemSize}
        /\ ancestors = <<>>
        /\ fOnDiskId = 1
        /\ fOnDiskTypeVersion = 1
        /\ fColumnRepresentative = <<"deser", row>>
        /\ fColumns = ConnectToSource(<< Column(types[1], 0) >>)
        /\ fPrincipalColumn = 1
        /\ connected = "source"
        /\ status = "running"
        /\ lastCall = [NoCall EXCEPT !.op = "ConnectPageSource", !.onDisk = types,
                                     !.typeVersion = 1]

EntryPresence == UNION {[1..n -> BOOLEAN] : n \in 1..MaxReadEntries}

UniquePtrInit ==
    /\ kind = "Nullable"
    /\ \E row \in 1..Len(GetDeserializationTypes("Nullable")) : ConnectedToSource(row)
    /\ present \in EntryPresence
    /\ principalData = WritePrincipalColumn(IsDense(kind, fColumnRepresentative),
                                            present, 1, 0)
    /\ \/ uniquePtr = 0 /\ heap = <<>>
       \/ uniquePtr = 1 /\ heap = << GenerateValueBy >>
    /\ lastRead = NoRead
    /\ OutsideUniquePtrIdle

RUniquePtrFieldReadGlobalImpl ==
    /\ status = "running"
    /\ connected = "source"
    /\ \E globalIndex \in 0..(Len(present) - 1) :
        LET r == UniquePtrReadGlobalImpl(IsDense(kind, fColumnRepresentative),
                                         principalData, uniquePtr, heap, globalIndex)
        IN  /\ Len(r.heap) <= MaxObjects
            /\ uniquePtr' = r.uniquePtr
            /\ heap' = r.heap
            /\ lastRead' = [op |-> "ReadGlobalImpl", globalIndex |-> globalIndex,
                            preUniquePtr |-> uniquePtr, preHeap |-> heap,
                            itemReads |-> r.itemReads]
    /\ UNCHANGED <<present, principalData, bindingVars, OutsideUniquePtr>>

UniquePtrNext == RUniquePtrFieldReadGlobalImpl

SpecUniquePtr == UniquePtrInit /\ [][UniquePtrNext]_vars

\* ---- The principal column of a nullable field, entry by entry ----

MaxNullableEntries == 4

\* A nullable field of either encoding, nothing appended yet.  The entries the
\* writer appends to the cluster are the ones GetItemIndex finds in it.
NullableInit ==
    /\ kind = "Nullable"
    /\ \E row \in 1..Len(GetDeserializationTypes("Nullable")) : ConnectedToSource(row)
    /\ UniquePtrIdle
    /\ OutsideUniquePtrIdle

\* What appending to and looking up the principal column leave alone.
OutsideNullable == <<bindingVars, fIndex, indexColumn, entries, nCommits, uniquePtr, heap,
                     cloneVars, createVars, normalizeVars, callbackVars, vectorVars,
                     valueVars>>

\* RNullableField::AppendNull; in dense encoding the default item goes to the item column.
RNullableFieldAppendNull ==
    /\ Len(present) < MaxNullableEntries
    /\ LET dense == IsDense(kind, fColumnRepresentative)
           a == AppendNull(dense, fNWritten)
       IN  /\ principalData' = Append(principalData, a.appended)
           /\ fNWritten' = a.counter
           /\ nItemsAppended' = IF dense THEN nItemsAppended + 1 ELSE nItemsAppended
    /\ present' = Append(present, FALSE)
    /\ lastRead' = [NoRead EXCEPT !.op = "AppendNull"]
    /\ UNCHANGED OutsideNullable

\* RNullableField::AppendValue: the item is appended first.
RNullableFieldAppendValue ==
    /\ Len(present) < MaxNullableEntries
    /\ LET a == AppendValue(IsDense(kind, fColumnRepresentative), fNWritten)
       IN  /\ principalData' = Append(principalData, a.appended)
           /\ fNWritten' = a.counter
    /\ nItemsAppended' = nItemsAppended + 1
    /\ present' = Append(present, TRUE)
    /\ lastRead' = [NoRead EXCEPT !.op = "AppendValue"]
    /\ UNCHANGED OutsideNullable

\* RNullableField::GetItemIndex(globalIndex) on the entries appended so far.
RNullableFieldGetItemIndex ==
    /\ \E globalIndex \in 0..(Len(present) - 1) :
          lastRead' = [NoRead EXCEPT
                          !.op = "GetItemIndex", !.globalIndex = globalIndex,
                          !.itemReads =
                              << [itemIndex |-> GetItemIndex(
                                                    IsDense(kind, fColumnRepresentative),
                                                    principalData, globalIndex),
                                  object |-> 0] >>]
    /\ UNCHANGED <<present, principalData, fNWritten, nItemsAppended>>
    /\ UNCHANGED OutsideNullable

NullableNext ==
    \/ RNullableFieldAppendNull
    \/ RNullableFieldAppendValue
    \/ RNullableFieldGetItemIndex

SpecNullable == NullableInit /\ [][NullableNext]_vars

\* The number of present values among the entries 0..k (positions 1..k+1 of `present`).
PresentUpTo(k) == Cardinality({j \in 1..(k + 1) : present[j]})

\* C24: in sparse encoding, within one cluster, AppendNull writes the previous index
\* value again (0 for the first entry) and AppendValue the previous index plus one after
\* appending the item, so the index column is non-decreasing and the index of entry k
\* is the number of present values among the entries 0..k; GetItemIndex(k) is the
\* invalid index exactly for the entries appended as null and otherwise the position
\* of the entry's item in the item column.
C24_SparseIndexCountsPresentValues ==
    ~IsDense(kind, fColumnRepresentative) =>
        /\ \A k \in 0..(Len(present) - 1) :
              LET previous == IF k = 0 THEN 0 ELSE principalData[k]
              IN  /\ principalData[k + 1] = IF present[k + 1] THEN previous + 1
                                            ELSE previous
                  /\ principalData[k + 1] >= previous
                  /\ principalData[k + 1] = PresentUpTo(k)
        /\ nItemsAppended = PresentUpTo(Len(present) - 1)
        /\ lastRead.op = "GetItemIndex" =>
              LET k == lastRead.globalIndex
                  itemIndex == lastRead.itemReads[1].itemIndex
              IN  /\ itemIndex = kInvalidClusterIndex <=> ~present[k + 1]
                  /\ present[k + 1] => itemIndex = PresentUpTo(k) - 1

\* null, X, null, Y in sparse encoding: the index column is 0 1 1 2, and the lookup of
\* the last entry gives item 1.
C24_Witness ==
    /\ ~IsDense(kind, fColumnRepresentative)
    /\ present = <<FALSE, TRUE, FALSE, TRUE>>
    /\ principalData = <<0, 1, 1, 2>>
    /\ lastRead.op = "GetItemIndex"
    /\ lastRead.globalIndex = 3
    /\ lastRead.itemReads[1].itemIndex = 1

-----------------------------------------------------------------------------
(* Properties of the read path of RUniquePtrField *)

\* C13: after RUniquePtrField::ReadGlobalImpl of an entry the destination is
\* non-null exactly when the entry is present on disk.  Present-to-absent
\* frees the old pointee and leaves null; absent-to-present allocates and
\* constructs one pointee and reads into it; present-to-present reads into the
\* existing pointee without allocating; absent-to-absent changes nothing.  No
\* pointee is both released and referenced, and the item is read exactly when
\* the entry is present.
C13_ReadReconcilesPresence ==
    lastRead.op = "ReadGlobalImpl" =>
        LET onDisk == present[lastRead.globalIndex + 1]
            pre == lastRead.preUniquePtr
            preHeap == lastRead.preHeap
            untouched(o) == o \in 1..Len(preHeap) /\ heap[o] = preHeap[o]
        IN  /\ (uniquePtr # 0) <=> onDisk
            /\ (pre # 0 /\ ~onDisk) =>
                  /\ uniquePtr = 0
                  /\ Len(heap) = Len(preHeap)
                  /\ heap[pre].state = "freed"
                  /\ \A o \in 1..Len(heap) : o # pre => untouched(o)
            /\ (pre = 0 /\ onDisk) =>
                  /\ Len(heap) = Len(preHeap) + 1
                  /\ uniquePtr = Len(heap)
                  /\ \A o \in 1..Len(preHeap) : untouched(o)
            /\ (pre # 0 /\ onDisk) =>
                  /\ uniquePtr = pre
                  /\ Len(heap) = Len(preHeap)
                  /\ \A o \in 1..Len(heap) : o # pre => untouched(o)
            /\ (pre = 0 /\ ~onDisk) => uniquePtr = 0 /\ heap = preHeap
            /\ uniquePtr # 0 => heap[uniquePtr].state = "constructed"
            /\ \A o \in 1..Len(heap) : heap[o].state = "freed" => uniquePtr # o
            /\ IF onDisk
               THEN /\ Len(lastRead.itemReads) = 1
                    /\ lastRead.itemReads[1].object = uniquePtr
                    /\ lastRead.itemReads[1].itemIndex # kInvalidClusterIndex
                    /\ heap[uniquePtr].value = lastRead.itemReads[1].itemIndex
               ELSE lastRead.itemReads = <<>>

\* A read of a present entry into a null destination, after an earlier read
\* of a missing entry freed the previous pointee.
C13_Witness ==
    /\ lastRead.op = "ReadGlobalImpl"
    /\ lastRead.preUniquePtr = 0
    /\ present[lastRead.globalIndex + 1]
    /\ Len(heap) = 2
    /\ heap[1].state = "freed"
    /\ uniquePtr = 2

-----------------------------------------------------------------------------
(* Clone *)

MaxTreeDepth == 2

\* Kinds whose CloneImpl clones no child, clones every child, or builds the
\* clone with the constructor, which creates the children anew.
LeafKinds == {"Double"}
ClonedChildrenKinds == {"Vector", "Record"}
RecreatedChildrenKinds == {"Class", "CollectionClass"}

\* A field as its constructor leaves it: no alias, no on-disk id, no
\* description, the default representative.
NewField(name, k, typeName, structure, object, children) ==
    [name |-> name, kind |-> k, typeName |-> typeName, structure |-> structure,
     typeAlias |-> "", onDiskId |-> kInvalidDescriptorId, description |-> "",
     representative |-> nullptr, object |-> object, children |-> children]

\* The type name the constructor of kind k gives a field with these children.
TypeNameOf(k, typeName, children) ==
    IF k = "Vector" THEN <<"std::vector", "<">> \o children[1].typeName \o <<">">>
    ELSE typeName

RECURSIVE Recreate(_, _, _)
\* The subfield the constructor of a class or proxy-collection field creates
\* for a member: RFieldBase::Create(name, typeName, typeAlias) on the same
\* class information that produced `node`.
Recreate(node, gen, path) ==
    [NewField(node.name, node.kind, node.typeName, node.structure, <<gen, path>>,
              [i \in 1..Len(node.children) |->
                  Recreate(node.children[i], gen, Append(path, i))])
        EXCEPT !.typeAlias = node.typeAlias]

RECURSIVE SyncFieldIDs(_, _)
\* SyncFieldIDs(from, to): every descendant of `to` takes the on-disk id of
\* the descendant of `from` at the same position.
SyncFieldIDs(from, to) ==
    [to EXCEPT !.children =
        [i \in 1..Len(to.children) |->
            [SyncFieldIDs(from.children[i], to.children[i])
                EXCEPT !.onDiskId = from.children[i].onDiskId]]]

RECURSIVE Clone(_, _, _, _)
RECURSIVE CloneImpl(_, _, _, _)
\* CloneImpl(newName) of every kind; the nodes it makes are new objects.
CloneImpl(node, newName, gen, path) ==
    IF node.kind \in RecreatedChildrenKinds
    THEN SyncFieldIDs(node,
             NewField(newName, node.kind, node.typeName, node.structure, <<gen, path>>,
                      [i \in 1..Len(node.children) |->
                          Recreate(node.children[i], gen, Append(path, i))]))
    ELSE LET items == [i \in 1..Len(node.children) |->
                          Clone(node.children[i], node.children[i].name, gen,
                                Append(path, i))]
         IN  NewField(newName, node.kind, TypeNameOf(node.kind, node.typeName, items),
                      node.structure, <<gen, path>>, items)

\* RFieldBase::Clone(newName)
Clone(node, newName, gen, path) ==
    [CloneImpl(node, newName, gen, path)
        EXCEPT !.typeAlias = node.typeAlias,
               !.onDiskId = node.onDiskId,
               !.description = node.description,
               !.representative = node.representative]

\* The leaves: RField<double>, with or without the Double32_t alias, a
\* description and a representative fixed by the caller.
LeafFields(path) ==
    {[NewField("_0", "Double", <<"double">>, "kLeaf", <<"F", path>>, <<>>)
         EXCEPT !.typeAlias = alias, !.onDiskId = id, !.description = d,
                !.representative = rep] :
        alias \in {"", "Double32_t"}, id \in {kInvalidDescriptorId, 1 + Len(path)},
        d \in {"", "x"}, rep \in {nullptr, <<"ser", 2>>}}

ParentTypeName(k, item) ==
    CASE k = "Vector" -> <<"std::vector", "<">> \o item.typeName \o <<">">>
      [] k = "Record" -> <<>>
      [] k = "Class" -> <<"MyClass">>
      [] k = "CollectionClass" -> <<"MyCollection">>

ParentStructure(k) ==
    IF k \in {"Vector", "CollectionClass"} THEN "kCollection" ELSE "kRecord"

RECURSIVE FieldTrees(_, _)
\* The field trees of depth at most d, rooted at position `path`.
FieldTrees(d, path) ==
    IF d = 1 THEN LeafFields(path)
    ELSE LeafFields(path) \cup
         {[NewField("f", k, ParentTypeName(k, item), ParentStructure(k), <<"F", path>>,
                    <<item>>)
              EXCEPT !.onDiskId = id, !.description = d2] :
             k \in ClonedChildrenKinds \cup RecreatedChildrenKinds,
             item \in FieldTrees(d - 1, Append(path, 1)),
             id \in {kInvalidDescriptorId, 1 + Len(path)},
             d2 \in {"", "x"}}

\* What cloning leaves alone.
OutsideClone == <<bindingVars, appendVars, uniquePtrVars, createVars, normalizeVars,
                  callbackVars, vectorVars, valueVars>>
OutsideCloneIdle ==
    /\ BindingIdle /\ AppendIdle /\ UniquePtrIdle /\ CreateIdle /\ NormalizeIdle
    /\ CallbackIdle /\ VectorIdle
    /\ ValueIdle

CloneInit ==
    /\ fieldTree \in FieldTrees(MaxTreeDepth, <<>>)
    /\ clone = <<>>
    /\ OutsideCloneIdle

\* A call of fieldTree.Clone(newName).
CallClone ==
    /\ clone = <<>>
    /\ \E newName \in {fieldTree.name, "copy"} :
           clone' = Clone(fieldTree, newName, "clone", <<>>)
    /\ UNCHANGED <<fieldTree, OutsideClone>>

CloneNext == CallClone

SpecClone == CloneInit /\ [][CloneNext]_vars

-----------------------------------------------------------------------------
(* Properties of Clone *)

RECURSIVE SameFields(_, _)
\* The two trees have the same shape and, node for node, the same type name,
\* structure, on-disk id, type alias, description and representative.
SameFields(a, b) ==
    /\ a.typeName = b.typeName
    /\ a.structure = b.structure
    /\ a.onDiskId = b.onDiskId
    /\ a.typeAlias = b.typeAlias
    /\ a.description = b.description
    /\ a.representative = b.representative
    /\ Len(a.children) = Len(b.children)
    /\ \A i \in 1..Len(a.children) : SameFields(a.children[i], b.children[i])

RECURSIVE ObjectsOf(_)
\* The node objects of a tree.
ObjectsOf(node) ==
    {node.object} \cup UNION {ObjectsOf(node.children[i]) : i \in 1..Len(node.children)}

\* C14: Clone(F) has the shape of F and every node has the type name,
\* structure and on-disk id of the corresponding node of F, and its type
\* alias, description and representative, for every field kind (the kinds
\* whose children are created anew included); no node object is shared.
C14_CloneIsIsomorphic ==
    clone # <<>> =>
        /\ SameFields(fieldTree, clone)
        /\ ObjectsOf(fieldTree) \cap ObjectsOf(clone) = {}

-----------------------------------------------------------------------------
(* Type names *)

\* A type name is the sequence of its tokens: names (a name of several words
\* such as "unsigned int" is one token), the qualifiers "const" and
\* "volatile", and the punctuation "<", ">", ",", "[", "]".  The empty
\* sequence is the empty string.

MaxQualifiers == 1

\* The pairs {key, value} of a translation table, as a function.
TableOf(pairs) == [k \in {e[1] : e \in pairs} |-> (CHOOSE e \in pairs : e[1] = k)[2]]

typeTranslationMap_Chained ==
    TableOf({
     <<"Bool_t", "bool">>, <<"Float_t", "float">>,
     <<"Double_t", "double">>, <<"string", "std::string">>,
     <<"Char_t", "char">>, <<"int8_t", "std::int8_t">>,
     <<"signed char", "char">>, <<"UChar_t", "std::uint8_t">>,
     <<"unsigned char", "std::uint8_t">>, <<"uint8_t", "std::uint8_t">>,
     <<"Short_t", "std::int16_t">>, <<"int16_t", "std::int16_t">>,
     <<"short", "std::int16_t">>, <<"UShort_t", "std::uint16_t">>,
     <<"unsigned short", "std::uint16_t">>, <<"uint16_t", "std::uint16_t">>,
     <<"Int_t", "int">>, <<"int32_t", "std::int32_t">>,
     <<"int", "std::int32_t">>, <<"UInt_t", "std::uint32_t">>,
     <<"unsigned", "std::uint32_t">>, <<"unsigned int", "std::uint32_t">>,
     <<"uint32_t", "std::uint32_t">>, <<"Long_t", "std::int64_t">>,
     <<"Long64_t", "std::int64_t">>, <<"int64_t", "std::int64_t">>,
     <<"long", "std::int64_t">>, <<"ULong64_t", "std::uint64_t">>,
     <<"unsigned long", "std::uint64_t">>, <<"uint64_t", "std::uint64_t">>})

typeTranslationMap ==
    TableOf({
     <<"Bool_t", "bool">>, <<"Float_t", "float">>,
     <<"Double_t", "double">>, <<"string", "std::string">>,
     <<"Char_t", "char">>, <<"int8_t", "std::int8_t">>,
     <<"signed char", "char">>, <<"UChar_t", "std::uint8_t">>,
     <<"unsigned char", "std::uint8_t">>, <<"uint8_t", "std::uint8_t">>,
     <<"Short_t", "std::int16_t">>, <<"int16_t", "std::int16_t">>,
     <<"short", "std::int16_t">>, <<"UShort_t", "std::uint16_t">>,
     <<"unsigned short", "std::uint16_t">>, <<"uint16_t", "std::uint16_t">>,
     <<"Int_t", "std::int32_t">>, <<"int32_t", "std::int32_t">>,
     <<"int", "std::int32_t">>, <<"UInt_t", "std::uint32_t">>,
     <<"unsigned", "std::uint32_t">>, <<"unsigned int", "std::uint32_t">>,
     <<"uint32_t", "std::uint32_t">>, <<"Long_t", "std::int64_t">>,
     <<"Long64_t", "std::int64_t">>, <<"int64_t", "std::int64_t">>,
     <<"long", "std::int64_t">>, <<"ULong64_t", "std::uint64_t">>,
     <<"unsigned long", "std::uint64_t">>, <<"uint64_t", "std::uint64_t">>})

Qualifiers == {"const", "volatile"}

\* TClassEdit::CleanType(typeName, 2): the qualifiers are removed everywhere.
CleanType(typeName) == SelectSeq(typeName, LAMBDA tok : tok \notin Qualifiers)

\* normalizedType.substr(0, n) == name + "<"
StartsWithTemplate(typeName, name) ==
    Len(typeName) >= 2 /\ typeName[1] = name /\ typeName[2] = "<"

\* if (normalizedType.substr(0, n) == name + "<") normalizedType = "std::" + normalizedType
QualifyStd(typeName, name) ==
    IF StartsWithTemplate(typeName, name)
    THEN <<"std::" \o typeName[1]>> \o Tail(typeName)
    ELSE typeName

\* The standard templates GetNormalizedTypeName qualifies, in its order.
StdTemplates == <<"vector", "array", "variant", "pair", "tuple", "bitset", "unique_ptr">>

RECURSIVE QualifyStdFrom(_, _)
\* The chain of tests of GetNormalizedTypeName from test i on.
QualifyStdFrom(typeName, i) ==
    IF i > Len(StdTemplates) THEN typeName
    ELSE QualifyStdFrom(QualifyStd(typeName, StdTemplates[i]), i + 1)

GetNormalizedTypeName(typeName) ==
    LET cleaned == CleanType(typeName)
        translated == IF Len(cleaned) = 1 /\ cleaned[1] \in DOMAIN typeTranslationMap
                      THEN <<typeTranslationMap[cleaned[1]]>>
                      ELSE cleaned
    IN  QualifyStdFrom(translated, 1)

Range2(f) == {f[k] : k \in DOMAIN f}

\* Template names with one argument list, bare and qualified.
TemplateTypeNames ==
    {<<prefix \o StdTemplates[i], "<">> \o args \o <<">">> :
        prefix \in {"", "std::"}, i \in 1..Len(StdTemplates),
        args \in {<<"int">>, <<"unsigned int", ",", "std::string">>}}

\* The supported type names without qualifiers: every key and value of the
\* table, every bare or qualified standard template name, a class name and
\* the empty name.
PlainTypeNames ==
    {<<k>> : k \in DOMAIN typeTranslationMap} \cup {<<v>> : v \in Range2(typeTranslationMap)}
        \cup TemplateTypeNames \cup {<<"MyClass">>, <<>>}

QualifierPrefixes == UNION {[1..n -> Qualifiers] : n \in 0..MaxQualifiers}

TypeNames == {q \o t : q \in QualifierPrefixes, t \in PlainTypeNames}

\* What normalization leaves alone.
OutsideNormalize == <<bindingVars, appendVars, uniquePtrVars, cloneVars, createVars,
                      callbackVars, vectorVars, valueVars>>
OutsideNormalizeIdle ==
    /\ BindingIdle /\ AppendIdle /\ UniquePtrIdle /\ CloneIdle /\ CreateIdle
    /\ CallbackIdle /\ VectorIdle
    /\ ValueIdle

NormalizeInit ==
    /\ rawTypeName \in TypeNames
    /\ normalizedOnce = <<>>
    /\ normalizedTwice = <<>>
    /\ OutsideNormalizeIdle

\* normalizedOnce = GetNormalizedTypeName(rawTypeName); the result is kept in
\* a sequence of one element.
Normalize ==
    /\ normalizedOnce = <<>>
    /\ normalizedOnce' = << GetNormalizedTypeName(rawTypeName) >>
    /\ UNCHANGED <<rawTypeName, normalizedTwice, OutsideNormalize>>

\* normalizedTwice = GetNormalizedTypeName(normalizedOnce)
NormalizeAgain ==
    /\ normalizedOnce # <<>>
    /\ normalizedTwice = <<>>
    /\ normalizedTwice' = << GetNormalizedTypeName(normalizedOnce[1]) >>
    /\ UNCHANGED <<rawTypeName, normalizedOnce, OutsideNormalize>>

NormalizeNext == Normalize \/ NormalizeAgain

SpecNormalize == NormalizeInit /\ [][NormalizeNext]_vars

-----------------------------------------------------------------------------
(* Properties of type-name normalization *)

QualifiedTemplates == {"std::" \o StdTemplates[i] : i \in 1..Len(StdTemplates)}

\* C18: normalization is idempotent on the supported type names; no value of
\* the translation table is one of its keys, and a name that starts with a
\* std::-qualified template keeps it, with no second prefix.
C18_NormalizationIsIdempotent ==
    /\ normalizedTwice # <<>> => normalizedTwice[1] = normalizedOnce[1]
    /\ normalizedOnce # <<>> =>
          /\ \A k \in DOMAIN typeTranslationMap :
                normalizedOnce[1] = <<typeTranslationMap[k]>>
                    => typeTranslationMap[k] \notin DOMAIN typeTranslationMap
          /\ LET cleaned == CleanType(rawTypeName)
             IN  (cleaned # <<>> /\ cleaned[1] \in QualifiedTemplates)
                     => normalizedOnce[1] = cleaned

\* A qualified bare template name (such as "const vector<int>") normalized
\* twice: the first call removed the qualifier and added std::.
C18_Witness ==
    /\ normalizedTwice # <<>>
    /\ Len(rawTypeName) > 1
    /\ rawTypeName[1] \in Qualifiers
    /\ StartsWithTemplate(Tail(rawTypeName), "vector")
    /\ normalizedOnce[1][1] = "std::vector"

-----------------------------------------------------------------------------
(* The field factory: RFieldBase::Create *)

MaxNesting == 1

\* Decimal sizes: std::from_chars / std::stoi on a token, std::to_string back.
SizeTokens == {"2", "3"}
from_chars(tok) == IF tok = "2" THEN 2 ELSE 3
to_string(n) == IF n = 2 THEN "2" ELSE "3"

\* What the introspection service knows.
KnownEnums == {"MyEnum"}
KnownClasses == {"MyClass"}
KnownCollectionClasses == {"MyCollection"}
Typedefs == [t \in {"MyInt_t"} |-> <<"int">>]

\* TClassEdit::ResolveTypedef
ResolveTypedef(typeName) ==
    IF Len(typeName) = 1 /\ typeName[1] \in DOMAIN Typedefs THEN Typedefs[typeName[1]]
    ELSE typeName

\* typeName.substr(0, 5) == "std::": the first name is qualified with std::
StdQualified ==
    {"std::string", "std::int8_t", "std::uint8_t", "std::int16_t", "std::uint16_t",
     "std::int32_t", "std::uint32_t", "std::int64_t", "std::uint64_t", "std::vector",
     "std::array", "std::variant", "std::pair", "std::tuple", "std::bitset",
     "std::unique_ptr"}

GetCanonicalTypeName(typeName) ==
    IF typeName = <<"ROOT::Experimental::ClusterSize_t">>
         \/ (typeName # <<>> /\ typeName[1] \in StdQualified)
         \/ StartsWithTemplate(typeName, "ROOT::Experimental::RNTupleCardinality")
    THEN typeName
    ELSE ResolveTypedef(typeName)

RECURSIVE TokenizeFrom(_, _, _, _)
\* The loop of TokenizeTypeList from token i on: `current` is the type being
\* read and `nestingLevel` the number of open angle brackets.
TokenizeFrom(templateType, i, nestingLevel, current) ==
    IF i > Len(templateType) THEN << current >>
    ELSE LET c == templateType[i]
         IN  IF c = "," /\ nestingLevel = 0
             THEN << current >> \o TokenizeFrom(templateType, i + 1, nestingLevel, <<>>)
             ELSE TokenizeFrom(templateType, i + 1,
                               IF c = "<" THEN nestingLevel + 1
                               ELSE IF c = ">" THEN nestingLevel - 1
                               ELSE nestingLevel,
                               Append(current, c))

TokenizeTypeList(templateType) ==
    IF templateType = <<>> THEN <<>> ELSE TokenizeFrom(templateType, 1, 0, <<>>)

RECURSIVE ParseArrayTypeFrom(_, _)
\* The loop of ParseArrayType: the outer array dimensions are taken off the
\* end of the type name; on error the result is the default-constructed tuple.
ParseArrayTypeFrom(typeName, sizeVec) ==
    IF typeName # <<>> /\ typeName[Len(typeName)] = "]"
    THEN LET lbraces == {i \in 1..Len(typeName) : typeName[i] = "["}
             posLBrace == CHOOSE i \in lbraces : \A j \in lbraces : j <= i
             digits == SubSeq(typeName, posLBrace + 1, Len(typeName) - 1)
         IN  IF lbraces = {} THEN [base |-> <<>>, sizes |-> <<>>]
             ELSE IF ~(Len(digits) = 1 /\ digits[1] \in SizeTokens)
             THEN [base |-> <<>>, sizes |-> <<>>]
             ELSE ParseArrayTypeFrom(SubSeq(typeName, 1, posLBrace - 1),
                                     << from_chars(digits[1]) >> \o sizeVec)
    ELSE [base |-> typeName, sizes |-> sizeVec]

ParseArrayType(typeName) == ParseArrayTypeFrom(typeName, <<>>)

\* A field as the factory returns it.
Field(name, k, typeName, subfields) ==
    [name |-> name, kind |-> k, typeName |-> typeName, typeAlias |-> <<>>,
     subfields |-> subfields]

\* RResult: a field, or a failure returned to the caller.
Success(field) == [outcome |-> "ok", msg |-> "", field |-> field]
Failure(msg) == [outcome |-> "fail", msg |-> msg, field |-> <<>>]

\* RResult::Unwrap: a failure is thrown as an RException.
Unwrap(result) ==
    IF result.outcome = "fail" THEN [result EXCEPT !.outcome = "throw"] ELSE result

\* The canonical names of the kinds RField<T> whose type name is T itself.
PrimitiveTypeNames ==
    {"ROOT::Experimental::ClusterSize_t", "bool", "char", "std::int8_t", "std::uint8_t",
     "std::int16_t", "std::uint16_t", "std::int32_t", "std::uint32_t", "std::int64_t",
     "std::uint64_t", "float", "double", "std::string"}

\* The template argument list: canonicalType.substr(n, canonicalType.length() - n - 1)
TemplateArguments(canonicalType) == SubSeq(canonicalType, 3, Len(canonicalType) - 1)

RECURSIVE GetTypeListFrom(_, _)
\* The type list a variant, pair or tuple field builds from its items: the
\* type names from item i on, separated by commas.
GetTypeListFrom(items, i) ==
    IF i > Len(items) THEN <<>>
    ELSE IF i = Len(items) THEN items[i].typeName
    ELSE items[i].typeName \o <<",">> \o GetTypeListFrom(items, i + 1)

GetTypeList(items) == GetTypeListFrom(items, 1)

\* The first result of a sequence of results that is not a field, if any.
FirstNotOk(results) ==
    LET bad == {i \in 1..Len(results) : results[i].outcome # "ok"}
    IN  IF bad = {} THEN 0 ELSE CHOOSE i \in bad : \A j \in bad : i <= j

FieldsOf(results) == [i \in 1..Len(results) |-> results[i].field]

\* "_" + std::to_string(i), for the items of a variant, pair or tuple
ItemName(i) == << <<"_0">>, <<"_1">>, <<"_2">> >>[i + 1]

RECURSIVE Create(_, _)
RECURSIVE CreateFromCanonical(_, _, _)
RECURSIVE CreateItems(_)

\* Create("_" + i, innerTypes[i]).Unwrap() for every inner type.
CreateItems(innerTypes) ==
    [i \in 1..Len(innerTypes) |-> Unwrap(Create(ItemName(i - 1), innerTypes[i]))]

\* The chain of tests on canonicalType in Create: the field, a failure, or
\* outcome "none" when no test applies.  Outcome "return" is the early return
\* of the Double32_t branch.
CreateByName(fieldName, canonicalType) ==
    LET args == TemplateArguments(canonicalType)
        is(name) == StartsWithTemplate(canonicalType, name)
    IN  IF Len(canonicalType) = 1 /\ canonicalType[1] \in PrimitiveTypeNames
        THEN Success(Field(fieldName, canonicalType[1], canonicalType, <<>>))
        ELSE IF canonicalType = <<"Double32_t">>
        THEN [Success([Field(fieldName, "double", <<"double">>, <<>>)
                          EXCEPT !.typeAlias = <<"Double32_t">>])
                 EXCEPT !.outcome = "return"]
        ELSE IF canonicalType = <<"std::vector", "<", "bool", ">">>
        THEN Success(Field(fieldName, "std::vector<bool>", canonicalType, <<>>))
        ELSE IF is("std::vector")
        THEN LET item == Unwrap(Create(<<"_0">>, args))
             IN  IF item.outcome # "ok" THEN item
                 ELSE Success(Field(fieldName, "RVectorField",
                                    <<"std::vector", "<">> \o item.field.typeName \o <<">">>,
                                    << item.field >>))
        ELSE IF is("ROOT::VecOps::RVec")
        THEN LET item == Unwrap(Create(<<"_0">>, args))
             IN  IF item.outcome # "ok" THEN item
                 ELSE Success(Field(fieldName, "RRVecField",
                                    <<"ROOT::VecOps::RVec", "<">> \o item.field.typeName
                                        \o <<">">>,
                                    << item.field >>))
        ELSE IF is("std::array")
        THEN LET arrayDef == TokenizeTypeList(args)
             IN  IF Len(arrayDef) # 2
                 THEN [outcome |-> "abort", msg |-> "R__ASSERT(arrayDef.size() == 2)",
                       field |-> <<>>]
                 ELSE IF ~(Len(arrayDef[2]) = 1 /\ arrayDef[2][1] \in SizeTokens)
                 THEN [outcome |-> "throw", msg |-> "std::invalid_argument", field |-> <<>>]
                 ELSE LET item == Unwrap(Create(<<"_0">>, arrayDef[1]))
                      IN  IF item.outcome # "ok" THEN item
                          ELSE Success(Field(fieldName, "RArrayField",
                                   <<"std::array", "<">> \o item.field.typeName
                                       \o <<",", to_string(from_chars(arrayDef[2][1])), ">">>,
                                   << item.field >>))
        ELSE IF is("std::variant")
        THEN LET items == CreateItems(TokenizeTypeList(args))
                 bad == FirstNotOk(items)
             IN  IF bad # 0 THEN items[bad]
                 ELSE IF items = <<>>
                 THEN [outcome |-> "abort", msg |-> "R__ASSERT(!result.empty())",
                       field |-> <<>>]
                 ELSE Success(Field(fieldName, "RVariantField",
                                    <<"std::variant", "<">> \o GetTypeList(FieldsOf(items))
                                        \o <<">">>,
                                    FieldsOf(items)))
        ELSE IF is("std::pair")
        THEN LET innerTypes == TokenizeTypeList(args)
                 items == CreateItems(innerTypes)
                 bad == FirstNotOk(items)
             IN  IF Len(innerTypes) # 2
                 THEN Failure("the type list for std::pair must have exactly two elements")
                 ELSE IF bad # 0 THEN items[bad]
                 ELSE Success(Field(fieldName, "RPairField",
                                    <<"std::pair", "<">> \o GetTypeList(FieldsOf(items))
                                        \o <<">">>,
                                    FieldsOf(items)))
        ELSE IF is("std::tuple")
        THEN LET items == CreateItems(TokenizeTypeList(args))
                 bad == FirstNotOk(items)
             IN  IF bad # 0 THEN items[bad]
                 ELSE IF items = <<>>
                 THEN [outcome |-> "throw",
                       msg |-> "the type list for std::tuple must have at least one element",
                       field |-> <<>>]
                 ELSE Success(Field(fieldName, "RTupleField",
                                    <<"std::tuple", "<">> \o GetTypeList(FieldsOf(items))
                                        \o <<">">>,
                                    FieldsOf(items)))
        ELSE IF is("std::bitset")
        THEN IF ~(Len(args) = 1 /\ args[1] \in SizeTokens)
             THEN [outcome |-> "throw", msg |-> "std::invalid_argument", field |-> <<>>]
             ELSE Success(Field(fieldName, "RBitsetField",
                                <<"std::bitset", "<", to_string(from_chars(args[1])), ">">>,
                                <<>>))
        ELSE IF is("std::unique_ptr")
        THEN LET item == Unwrap(Create(<<"_0">>, args))
             IN  IF item.outcome # "ok" THEN item
                 ELSE Success(Field(fieldName, "RUniquePtrField",
                                    <<"std::unique_ptr", "<">> \o item.field.typeName
                                        \o <<">">>,
                                    << item.field >>))
        ELSE IF canonicalType = <<":Collection:">>
        THEN Success(Field(fieldName, "ROOT::Experimental::ClusterSize_t",
                           <<"ROOT::Experimental::ClusterSize_t">>, <<>>))
        ELSE IF is("ROOT::Experimental::RNTupleCardinality")
        THEN LET innerTypes == TokenizeTypeList(args)
             IN  IF Len(innerTypes) # 1
                 THEN Failure("invalid cardinality template")
                 ELSE IF innerTypes[1] \in {<<"std::uint32_t">>, <<"std::uint64_t">>}
                 THEN Success(Field(fieldName, "RNTupleCardinality", canonicalType, <<>>))
                 ELSE Failure("invalid cardinality template")
        ELSE [outcome |-> "none", msg |-> "", field |-> <<>>]

\* TEnum::GetEnum(canonicalType), then TClass::GetClass(canonicalType)
CreateByIntrospection(fieldName, canonicalType) ==
    IF Len(canonicalType) = 1 /\ canonicalType[1] \in KnownEnums
    THEN Success(Field(fieldName, "REnumField", canonicalType, <<>>))
    ELSE IF Len(canonicalType) = 1 /\ canonicalType[1] \in KnownCollectionClasses
    THEN Success(Field(fieldName, "RCollectionClassField", canonicalType, <<>>))
    ELSE IF Len(canonicalType) = 1 /\ canonicalType[1] \in KnownClasses
    THEN Success(Field(fieldName, "RClassField", canonicalType, <<>>))
    ELSE [outcome |-> "none", msg |-> "", field |-> <<>>]

\* RFieldBase::Create(fieldName, canonicalType, typeAlias)
CreateFromCanonical(fieldName, canonicalType, typeAlias) ==
    LET array == ParseArrayType(canonicalType)
        byName == CreateByName(fieldName, canonicalType)
        result == IF byName.outcome = "none"
                  THEN CreateByIntrospection(fieldName, canonicalType)
                  ELSE byName
    IN  IF canonicalType = <<>> THEN Failure("no type name specified")
        ELSE IF array.sizes # <<>>
        THEN IF Len(array.sizes) > 1
             THEN Failure("multi-dimensional array type not supported")
             ELSE LET item == Unwrap(Create(<<"_0">>, array.base))
                  IN  IF item.outcome # "ok" THEN item
                      ELSE Success(Field(fieldName, "RArrayField",
                               <<"std::array", "<">> \o item.field.typeName
                                   \o <<",", to_string(array.sizes[1]), ">">>,
                               << item.field >>))
        ELSE IF result.outcome = "return" THEN Success(result.field)
        ELSE IF result.outcome = "ok"
        THEN IF typeAlias # canonicalType
             THEN Success([result.field EXCEPT !.typeAlias = typeAlias])
             ELSE result
        ELSE IF result.outcome = "none" THEN Failure("unknown type")
        ELSE result

\* RFieldBase::Create(fieldName, typeName)
Create(fieldName, typeName) ==
    LET typeAlias == GetNormalizedTypeName(typeName)
        canonicalType == GetNormalizedTypeName(GetCanonicalTypeName(typeAlias))
    IN  CreateFromCanonical(fieldName, canonicalType, typeAlias)

\* RFieldBase::EnsureValidFieldName: a name is the sequence of its characters
\* ("." apart, a run of characters is one element).
EnsureValidFieldName(fieldName) ==
    IF fieldName = <<>> THEN "name cannot be empty string"
    ELSE IF \E i \in 1..Len(fieldName) : fieldName[i] = "."
    THEN "name cannot contain dot characters"
    ELSE "Success"

\* ---- The calls of the factory that are explored ----

\* A type name handed to Create, with what is wrong with it ("none" when
\* nothing is) and whether it is built only from the kinds of types whose
\* type name is documented to be kept.
TypeArg(typeName, defect, listed) ==
    [typeName |-> typeName, defect |-> defect, listed |-> listed]

GoodLeaves ==
    {TypeArg(<<n>>, "none", TRUE) : n \in PrimitiveTypeNames}
      \cup {TypeArg(<<":Collection:">>, "none", TRUE),
            TypeArg(<<"std::bitset", "<", "2", ">">>, "none", TRUE),
            TypeArg(<<"ROOT::Experimental::RNTupleCardinality", "<", "std::uint32_t", ">">>,
                    "none", TRUE),
            TypeArg(<<"ROOT::Experimental::RNTupleCardinality", "<", "std::uint64_t", ">">>,
                    "none", TRUE),
            TypeArg(<<"Double32_t">>, "none", FALSE),
            TypeArg(<<"MyEnum">>, "none", FALSE),
            TypeArg(<<"MyClass">>, "none", FALSE),
            TypeArg(<<"MyCollection">>, "none", FALSE)}

BadLeaves ==
    {TypeArg(<<"Unknown">>, "unknown type name", FALSE),
     TypeArg(<<>>, "empty type name", FALSE),
     TypeArg(<<"bool", "[", "2", "]", "[", "3", "]">>, "multi-dimensional array", FALSE),
     TypeArg(<<"ROOT::Experimental::RNTupleCardinality", "<", "float", ">">>,
             "invalid cardinality template argument", FALSE),
     TypeArg(<<"std::pair", "<", "bool", ">">>, "invalid pair argument count", FALSE),
     TypeArg(<<"std::pair", "<", "bool", ",", "bool", ",", "bool", ">">>,
             "invalid pair argument count", FALSE)}

Wrappers ==
    {"std::vector", "ROOT::VecOps::RVec", "std::array", "[]", "std::variant", "std::pair",
     "std::tuple", "std::unique_ptr"}

\* The type name that has `inner` as its element or first template argument.
Wrap(wrapper, inner) ==
    CASE wrapper \in {"std::vector", "ROOT::VecOps::RVec", "std::unique_ptr"} ->
           <<wrapper, "<">> \o inner \o <<">">>
      [] wrapper = "std::array" -> <<wrapper, "<">> \o inner \o <<",", "2", ">">>
      [] wrapper = "[]" -> inner \o <<"[", "2", "]">>
      [] OTHER -> <<wrapper, "<">> \o inner \o <<",", "bool", ">">>

WrapArg(wrapper, inner) ==
    TypeArg(Wrap(wrapper, inner.typeName),
            IF inner.defect = "none" /\ wrapper = "[]"
                 /\ inner.typeName[Len(inner.typeName)] = "]"
            THEN "multi-dimensional array"
            ELSE inner.defect,
            inner.listed)

RECURSIVE TypeArgs(_)
\* The type names with at most d levels of wrapping.  T[n] is not formed
\* from the empty name.
TypeArgs(d) ==
    IF d = 0 THEN GoodLeaves \cup BadLeaves
    ELSE TypeArgs(d - 1)
           \cup {WrapArg(w, inner) : w \in Wrappers \ {"[]"}, inner \in TypeArgs(d - 1)}
           \cup {WrapArg("[]", inner) : inner \in {a \in TypeArgs(d - 1) : a.typeName # <<>>}}

FieldNames == {<<"f">>, <<>>, <<"a", ".", "b">>}

OutsideCreate == <<bindingVars, appendVars, uniquePtrVars, cloneVars, normalizeVars,
                   callbackVars, vectorVars, valueVars>>
OutsideCreateIdle ==
    /\ BindingIdle /\ AppendIdle /\ UniquePtrIdle /\ CloneIdle /\ NormalizeIdle
    /\ CallbackIdle /\ VectorIdle
    /\ ValueIdle

CreateInit ==
    /\ \E fieldName \in FieldNames, arg \in TypeArgs(MaxNesting) :
          createArgs = [fieldName |-> fieldName, typeName |-> arg.typeName,
                        defect |-> arg.defect, listed |-> arg.listed]
    /\ createResult = <<>>
    /\ OutsideCreateIdle

\* createResult = RFieldBase::Create(fieldName, typeName)
CallCreate ==
    /\ createResult = <<>>
    /\ createResult' = Create(createArgs.fieldName, createArgs.typeName)
    /\ UNCHANGED createArgs
    /\ UNCHANGED OutsideCreate

CreateNext == CallCreate

SpecCreate == CreateInit /\ [][CreateNext]_vars

Created == createResult # <<>> /\ createResult.outcome = "ok"

\* C15: a field that Create builds from a canonical type name T of the
\* supported set has T as its type name.
C15_TypeNameIsCanonicalName ==
    (Created /\ createArgs.listed)
        => createResult.field.typeName = createArgs.typeName

\* C16: an unknown or empty type name, a multi-dimensional array, an invalid
\* cardinality argument and an invalid pair argument count, at the top of the
\* type name or nested in it, make Create return a failure; no exception is
\* raised.
C16_FailuresAreReturned ==
    (createResult # <<>> /\ createArgs.defect # "none")
        => createResult.outcome = "fail"

RECURSIVE NamesOf(_)
\* The names of the fields of a tree.
NamesOf(field) ==
    {field.name}
      \cup UNION {NamesOf(field.subfields[i]) : i \in 1..Len(field.subfields)}

\* C17: every field of a tree that Create produces has a name that
\* EnsureValidFieldName accepts; Create rejects the other names.
C17_CreatedNamesAreValid ==
    Created => \A name \in NamesOf(createResult.field) :
                   EnsureValidFieldName(name) = "Success"

\* ---------------------------------------------------------------------------
\* Read callbacks and the simple path
\* ---------------------------------------------------------------------------

MaxCallbacks == 3
MaxRules == 2

\* The functions that are installed.
Callbacks == {"f", "g"}

\* What is found where a callback would be after erase() has run past the end
\* of the list.
Garbage == "garbage"

\* The traits a constructor leaves: RFieldBase sets kTraitMappable exactly
\* for isSimple, the derived constructors add or clear the other two.
TraitsAfterConstruction(isSimple) ==
    {(IF isSimple THEN {"kTraitMappable"} ELSE {}) \cup extra :
        extra \in SUBSET {"kTraitTriviallyConstructible", "kTraitTriviallyDestructible"}}

\* fIsSimple as RemoveReadCallback sets it, without the test of the list.
IsSimpleAfterRemove_IgnoresCallbacks(traits, callbacks) == "kTraitMappable" \in traits

\* (fTraits & kTraitMappable) && fReadCallbacks.empty()
IsSimpleAfterRemove(traits, callbacks) ==
    "kTraitMappable" \in traits /\ callbacks = <<>>

\* fReadCallbacks.erase(fReadCallbacks.begin() + idx) for idx < size()
Erase(callbacks, idx) ==
    SubSeq(callbacks, 1, idx) \o SubSeq(callbacks, idx + 2, Len(callbacks))

\* The same for idx >= size(), which is undefined: the lists a build can leave
\* when the call returns.  No element is moved, the end is taken back by one
\* and what is there is destroyed.
EraseOutOfRange(callbacks) ==
    IF callbacks = <<>> THEN {<<Garbage>>}
    ELSE {SubSeq(callbacks, 1, Len(callbacks) - 1)}

\* The rules handed to AddReadCallbacksFromIORules: a read rule with its
\* function, a read rule without one, or a rule of another type.
RuleKinds == {"kReadRule", "kReadRuleNoFunction", "kReadRawRule"}

RECURSIVE RulesUpTo(_)
RulesUpTo(n) ==
    IF n = 0 THEN {<<>>}
    ELSE RulesUpTo(n - 1)
           \cup {Append(rules, r) : rules \in {q \in RulesUpTo(n - 1) : Len(q) = n - 1},
                                    r \in RuleKinds}

RECURSIVE CallbacksFromIORules(_, _)
\* The loop of AddReadCallbacksFromIORules from rule i on: the callbacks added
\* and whether R__ASSERT(func != nullptr) stopped the program.
CallbacksFromIORules(rules, i) ==
    IF i > Len(rules) THEN [added |-> <<>>, outcome |-> "ok"]
    ELSE IF rules[i] = "kReadRawRule" THEN CallbacksFromIORules(rules, i + 1)
    ELSE IF rules[i] = "kReadRuleNoFunction" THEN [added |-> <<>>, outcome |-> "crash"]
    ELSE LET rest == CallbacksFromIORules(rules, i + 1)
         IN  [rest EXCEPT !.added = <<"rule">> \o rest.added]

OutsideCallbacks == <<bindingVars, appendVars, uniquePtrVars, cloneVars, createVars,
                      normalizeVars, vectorVars, valueVars>>
OutsideCallbacksIdle ==
    /\ BindingIdle /\ AppendIdle /\ UniquePtrIdle /\ CloneIdle /\ CreateIdle
    /\ NormalizeIdle /\ VectorIdle
    /\ ValueIdle

\* A field as its constructor leaves it.
CallbackInit ==
    /\ \E isSimple \in BOOLEAN :
          /\ fIsSimple = isSimple
          /\ fTraits \in TraitsAfterConstruction(isSimple)
    /\ fReadCallbacks = <<>>
    /\ callbackHandles = <<>>
    /\ lastCallbackCall = NoCallbackCall
    /\ OutsideCallbacksIdle

CallbacksRunning == lastCallbackCall.outcome = "ok"

\* RFieldBase::AddReadCallback(func)
AddReadCallback ==
    /\ CallbacksRunning
    /\ Len(fReadCallbacks) < MaxCallbacks
    /\ \E func \in Callbacks :
          /\ fReadCallbacks' = Append(fReadCallbacks, func)
          /\ callbackHandles' = Append(callbackHandles, Len(fReadCallbacks))
          /\ fIsSimple' = FALSE
          /\ lastCallbackCall' = [op |-> "AddReadCallback",
                                  idx |-> Len(fReadCallbacks') - 1,
                                  outcome |-> "ok"]
    /\ UNCHANGED fTraits
    /\ UNCHANGED OutsideCallbacks

\* RFieldBase::RemoveReadCallback(idx)
RemoveReadCallback ==
    /\ CallbacksRunning
    /\ \E idx \in 0..MaxCallbacks :
          IF idx < Len(fReadCallbacks)
          THEN /\ fReadCallbacks' = Erase(fReadCallbacks, idx)
               /\ callbackHandles' = Erase(callbackHandles, idx)
               /\ fIsSimple' = IsSimpleAfterRemove(fTraits, fReadCallbacks')
               /\ lastCallbackCall' = [op |-> "RemoveReadCallback", idx |-> idx,
                                       outcome |-> "ok"]
          ELSE \/ /\ fReadCallbacks' \in EraseOutOfRange(fReadCallbacks)
                  /\ callbackHandles' = IF callbackHandles = <<>> THEN <<-1>>
                                        ELSE SubSeq(callbackHandles, 1,
                                                    Len(callbackHandles) - 1)
                  /\ fIsSimple' = IsSimpleAfterRemove(fTraits, fReadCallbacks')
                  /\ lastCallbackCall' = [op |-> "RemoveReadCallback", idx |-> idx,
                                          outcome |-> "ok"]
               \/ /\ lastCallbackCall' = [op |-> "RemoveReadCallback", idx |-> idx,
                                          outcome |-> "crash"]
                  /\ UNCHANGED <<fReadCallbacks, fIsSimple, callbackHandles>>
    /\ UNCHANGED fTraits
    /\ UNCHANGED OutsideCallbacks

\* RClassField::AddReadCallbacksFromIORules(rules, classp), which
\* OnConnectPageSource calls.  A class field is constructed with isSimple
\* false, hence without kTraitMappable.
AddReadCallbacksFromIORules ==
    /\ CallbacksRunning
    /\ "kTraitMappable" \notin fTraits
    /\ \E rules \in RulesUpTo(MaxRules) :
          LET result == CallbacksFromIORules(rules, 1)
          IN  /\ Len(fReadCallbacks) + Len(result.added) <= MaxCallbacks
              /\ fReadCallbacks' = fReadCallbacks \o result.added
              /\ callbackHandles' =
                    callbackHandles \o [i \in 1..Len(result.added) |->
                                            Len(fReadCallbacks) + i - 1]
              /\ lastCallbackCall' = [op |-> "AddReadCallbacksFromIORules", idx |-> 0,
                                      outcome |-> result.outcome]
    /\ UNCHANGED <<fIsSimple, fTraits>>
    /\ UNCHANGED OutsideCallbacks

CallbackNext ==
    \/ AddReadCallback
    \/ RemoveReadCallback
    \/ AddReadCallbacksFromIORules

SpecCallbacks == CallbackInit /\ [][CallbackNext]_vars

\* RemoveReadCallback(h) has returned, and h is the handle of an installed callback.
RemovedInstalledHandle(h) ==
    /\ lastCallbackCall'.op = "RemoveReadCallback"
    /\ lastCallbackCall'.outcome = "ok"
    /\ lastCallbackCall'.idx = h
    /\ \E i \in 1..Len(callbackHandles) : callbackHandles[i] = h

\* C27: a handle returned by AddReadCallback keeps identifying the callback it was
\* returned for: RemoveReadCallback(h), for a handle h whose callback is still
\* installed, removes exactly that callback and no other, and the remaining
\* callbacks keep their relative order.
C27_HandleIdentifiesItsCallback ==
    [][\A h \in 0..MaxCallbacks :
           RemovedInstalledHandle(h) =>
               \E i \in 1..Len(callbackHandles) :
                   /\ callbackHandles[i] = h
                   /\ callbackHandles' = Erase(callbackHandles, i - 1)
                   /\ fReadCallbacks' = Erase(fReadCallbacks, i - 1)]_vars

\* C19: after AddReadCallback the field is not simple; after
\* RemoveReadCallback it is simple exactly when it has the Mappable trait and
\* no read callback is left; so a simple field never has a read callback.
C19_SimpleMeansNoCallback ==
    /\ lastCallbackCall.op = "AddReadCallback" => ~fIsSimple
    /\ (lastCallbackCall.op = "RemoveReadCallback" /\ lastCallbackCall.outcome = "ok")
          => (fIsSimple <=> ("kTraitMappable" \in fTraits /\ fReadCallbacks = <<>>))
    /\ fIsSimple => fReadCallbacks = <<>>

\* The only callback of a mappable field has been removed, and the field is
\* simple again.
C19_Witness ==
    /\ lastCallbackCall.op = "RemoveReadCallback"
    /\ lastCallbackCall.outcome = "ok"
    /\ lastCallbackCall.idx = 0
    /\ fReadCallbacks = <<>>
    /\ "kTraitMappable" \in fTraits
    /\ fIsSimple

\* ---------------------------------------------------------------------------
\* RVectorField::ReadGlobalImpl
\* ---------------------------------------------------------------------------

MaxVectorEntries == 2
MaxVectorSize == 5

\* kTraitTriviallyConstructible | kTraitTriviallyDestructible
kTraitTrivialType == {"kTraitTriviallyConstructible", "kTraitTriviallyDestructible"}

\* traits & mask, as a condition
HasTrait(traits, mask) == traits \cap mask # {}

\* The positions i of a loop for (i = from; i < to; ++i), in order.
Positions(from, to) == [i \in 1..(to - from) |-> from + i - 1]

RECURSIVE VectorIndexColumn(_, _, _)
\* The index column after RVectorField::AppendImpl of the entries k.. with the
\* given numbers of items, one cluster.
VectorIndexColumn(sizes, k, nWritten) ==
    IF k > Len(sizes) THEN <<>>
    ELSE <<nWritten + sizes[k]>> \o VectorIndexColumn(sizes, k + 1, nWritten + sizes[k])

\* The same lifecycle with the existing items kept on growth.
VectorLifecycle_KeepsSurvivors(traits, oldNItems, nItems) ==
    IF HasTrait(traits, kTraitTrivialType)
    THEN [destroyed |-> <<>>, constructed |-> <<>>]
    ELSE [destroyed |-> IF ~HasTrait(traits, {"kTraitTriviallyDestructible"})
                        THEN Positions(nItems, oldNItems) ELSE <<>>,
          constructed |-> IF ~HasTrait(traits, {"kTraitTriviallyConstructible"})
                          THEN Positions(oldNItems, nItems) ELSE <<>>]

\* The calls of DestroyValueBy and GenerateValueBy that ReadGlobalImpl makes
\* around the resize of a vector of oldNItems items to nItems items.
VectorLifecycle(traits, oldNItems, nItems) ==
    IF HasTrait(traits, kTraitTrivialType)
    THEN [destroyed |-> <<>>, constructed |-> <<>>]
    ELSE LET canRealloc == oldNItems < nItems
             allDeallocated == IF ~HasTrait(traits, {"kTraitTriviallyDestructible"})
                               THEN canRealloc ELSE FALSE
         IN  [destroyed |-> IF ~HasTrait(traits, {"kTraitTriviallyDestructible"})
                            THEN Positions(IF allDeallocated THEN 0 ELSE nItems, oldNItems)
                            ELSE <<>>,
              constructed |-> IF ~HasTrait(traits, {"kTraitTriviallyConstructible"})
                              THEN Positions(IF allDeallocated THEN 0 ELSE oldNItems, nItems)
                              ELSE <<>>]

RECURSIVE SizesUpTo(_)
\* The numbers of items of at most n entries.
SizesUpTo(n) ==
    IF n = 0 THEN {<<>>}
    ELSE SizesUpTo(n - 1)
           \cup {Append(sizes, c) : sizes \in {q \in SizesUpTo(n - 1) : Len(q) = n - 1},
                                    c \in 0..MaxVectorSize}

OutsideVector == <<bindingVars, appendVars, uniquePtrVars, cloneVars, createVars,
                   normalizeVars, callbackVars, valueVars>>
OutsideVectorIdle ==
    /\ BindingIdle /\ AppendIdle /\ UniquePtrIdle /\ CloneIdle /\ CreateIdle
    /\ NormalizeIdle /\ CallbackIdle
    /\ ValueIdle

\* A field connected to a source that holds the written entries, and an empty
\* destination vector.
VectorInit ==
    /\ vectorSizes \in SizesUpTo(MaxVectorEntries) \ {<<>>}
    /\ itemTraits \in SUBSET kTraitTrivialType
    /\ vectorValue = <<>>
    /\ lastVectorRead = NoVectorRead
    /\ OutsideVectorIdle

\* RVectorField::ReadGlobalImpl(globalIndex, to): an item of the vector is
\* shown by the index of the element last read into it.
RVectorFieldReadGlobalImpl ==
    /\ \E globalIndex \in 0..(Len(vectorSizes) - 1) :
          LET info == GetCollectionInfo(VectorIndexColumn(vectorSizes, 1, 0), globalIndex)
              nItems == info.collectionSize
              oldNItems == Len(vectorValue)
              lifecycle == VectorLifecycle(itemTraits, oldNItems, nItems)
          IN  /\ vectorValue' = [i \in 1..nItems |-> info.collectionStart + i - 1]
              /\ lastVectorRead' = [op |-> "ReadGlobalImpl",
                                    globalIndex |-> globalIndex,
                                    preValue |-> vectorValue,
                                    destroyed |-> lifecycle.destroyed,
                                    constructed |-> lifecycle.constructed,
                                    read |-> Positions(0, nItems)]
    /\ UNCHANGED <<itemTraits, vectorSizes>>
    /\ UNCHANGED OutsideVector

VectorNext == RVectorFieldReadGlobalImpl

SpecVectorRead == VectorInit /\ [][VectorNext]_vars

\* The read grew the vector: m items before, n > m after.
VectorGrew ==
    /\ lastVectorRead.op = "ReadGlobalImpl"
    /\ Len(lastVectorRead.preValue) < Len(vectorValue)

\* C20 (as stated): a read that grows a vector of m items of a non-trivial
\* item type (neither trivially constructible nor trivially destructible) to
\* n items destroys none of the m items, constructs the n - m items of the
\* new tail only, and reads all n items.
C20_GrowthKeepsExistingItems ==
    (VectorGrew /\ itemTraits = {})
        => /\ lastVectorRead.destroyed = <<>>
           /\ lastVectorRead.constructed =
                  Positions(Len(lastVectorRead.preValue), Len(vectorValue))
           /\ lastVectorRead.read = Positions(0, Len(vectorValue))

\* C20 (amended): a read that grows a vector of m items to n items, of an
\* item type that is neither trivially constructible nor trivially
\* destructible, destroys all m items, constructs all n items after the
\* resize, and reads all n items.
C20_GrowthRebuildsAllItems ==
    (VectorGrew /\ itemTraits = {})
        => /\ lastVectorRead.destroyed = Positions(0, Len(lastVectorRead.preValue))
           /\ lastVectorRead.constructed = Positions(0, Len(vectorValue))
           /\ lastVectorRead.read = Positions(0, Len(vectorValue))

\* From three items to five: three destructions, five constructions.
C20_Witness ==
    /\ VectorGrew
    /\ itemTraits = {}
    /\ Len(lastVectorRead.preValue) = 3
    /\ Len(vectorValue) = 5
    /\ lastVectorRead.destroyed = <<0, 1, 2>>
    /\ lastVectorRead.constructed = <<0, 1, 2, 3, 4>>

\* ---------------------------------------------------------------------------
\* RRVecField: the RVec value, DestroyValue and ReadGlobalImpl
\* ---------------------------------------------------------------------------

MaxRVecItems == 2

SizeOfPointer == 8
SizeOfInt32 == 4
cacheLineSize == 64
maxInlineByteSize == 1024

\* constexpr auto dataMemberSz = sizeof(void *) + 2 * sizeof(std::int32_t)
dataMemberSz == SizeOfPointer + 2 * SizeOfInt32

\* The padding between fCapacity and the inline buffer.
paddingMiddle(alignOfT) ==
    LET rest == dataMemberSz % alignOfT
    IN  IF rest # 0 THEN alignOfT - rest ELSE 0

\* The number of elements of the inline buffer (the lambda of EvalValueSize).
nElements(sizeOfT) ==
    LET elementsPerCacheLine == (cacheLineSize - dataMemberSz) \div sizeOfT
    IN  IF elementsPerCacheLine >= 8 THEN elementsPerCacheLine
        ELSE IF sizeOfT * 8 > maxInlineByteSize THEN 0 ELSE 8

\* RRVecField::GetAlignment: that of the item, at least that of a pointer.
RVecAlignment(alignOfT) == IF alignOfT > SizeOfPointer THEN alignOfT ELSE SizeOfPointer

\* RRVecField::EvalValueSize
EvalValueSize(sizeOfT, alignOfT) ==
    LET inlineStorageSz == nElements(sizeOfT) * sizeOfT
        rest == (dataMemberSz + paddingMiddle(alignOfT) + inlineStorageSz)
                    % RVecAlignment(alignOfT)
        paddingEnd == IF rest # 0 THEN RVecAlignment(alignOfT) - rest ELSE 0
    IN  dataMemberSz + inlineStorageSz + paddingMiddle(alignOfT) + paddingEnd

\* The address of the inline buffer of the value at `base`, as EvalValueSize
\* lays the value out.
InlineSlot(base, alignOfT) == base + dataMemberSz + paddingMiddle(alignOfT)

\* beginPtr + dataMemberSz + paddingMiddle in DestroyValue: beginPtr is a
\* void **, so the sum advances by that many pointers.
SmallStateAddress(base, alignOfT) ==
    base + SizeOfPointer * (dataMemberSz + paddingMiddle(alignOfT))

\* The item fields: size, alignment and traits.
RVecItems ==
    {[size |-> sa[1], alignment |-> sa[2], traits |-> traits] :
        sa \in {<<8, 8>>, <<256, 8>>, <<256, 32>>},
        traits \in SUBSET kTraitTrivialType}

\* Where a value lives.
ValueAddresses == {1024}

\* Where malloc can place a buffer, the value at `base` being allocated.
BufferAddresses(base, item) ==
    {a \in {base + 4096, SmallStateAddress(base, item.alignment)} :
        a >= base + EvalValueSize(item.size, item.alignment)}

\* The states an RVec value can be in: as GenerateValue leaves it, small
\* (inline buffer), with an adopted buffer, or with a buffer of its own.
RVecStates(base, item) ==
    {[begin |-> 0, size |-> 0, capacity |-> 0]}
      \cup {[begin |-> InlineSlot(base, item.alignment), size |-> n,
             capacity |-> nElements(item.size)] :
               n \in {k \in 0..MaxRVecItems : k <= nElements(item.size)}}
      \cup {[begin |-> a, size |-> n, capacity |-> -1] :
               a \in BufferAddresses(base, item), n \in 0..MaxRVecItems}
      \cup {[begin |-> a, size |-> cn[2], capacity |-> cn[1]] :
               a \in BufferAddresses(base, item),
               cn \in {x \in (1..MaxRVecItems) \X (0..MaxRVecItems) : x[2] <= x[1]}}

\* What RRVecField leaves alone.
OutsideRVec == <<bindingVars, appendVars, uniquePtrVars, cloneVars, createVars,
                 normalizeVars, callbackVars, vectorVars, variantVars, recordVars>>
OutsideRVecIdle ==
    /\ BindingIdle /\ AppendIdle /\ UniquePtrIdle /\ CloneIdle /\ CreateIdle
    /\ NormalizeIdle /\ CallbackIdle /\ VectorIdle /\ VariantIdle /\ RecordIdle

RVecInit ==
    /\ rvBase \in ValueAddresses
    /\ rvItem \in RVecItems
    /\ \E state \in RVecStates(rvBase, rvItem) :
          /\ rvBegin = state.begin
          /\ rvSize = state.size
          /\ rvCapacity = state.capacity
    /\ rvFreed = <<>>
    /\ lastRVecCall = NoRVecCall
    /\ OutsideRVecIdle

\* The value is alive and the program running.
RVecAlive == lastRVecCall.outcome = "ok" /\ lastRVecCall.op # "DestroyValue"

\* free(p) of a buffer that malloc did not return, or of one the value does
\* not own, is undefined.
FreeIsUndefined(p) ==
    p = InlineSlot(rvBase, rvItem.alignment) \/ (p # 0 /\ rvCapacity = -1)

\* RRVecField::DestroyValue(objPtr, dtorOnly)
RRVecFieldDestroyValue ==
    /\ RVecAlive
    /\ \E dtorOnly \in BOOLEAN :
          LET destroyed == IF ~HasTrait(rvItem.traits, {"kTraitTriviallyDestructible"})
                           THEN Positions(0, rvSize) ELSE <<>>
              isSmall == rvBegin = SmallStateAddress(rvBase, rvItem.alignment)
              owns == rvCapacity # -1
              freesBuffer == ~isSmall /\ owns
          IN  /\ rvFreed' = rvFreed \o (IF freesBuffer THEN <<rvBegin>> ELSE <<>>)
                                    \o (IF ~dtorOnly THEN <<rvBase>> ELSE <<>>)
              /\ \E outcome \in {"ok", "crash"} :
                    /\ outcome = "crash" => (freesBuffer /\ FreeIsUndefined(rvBegin))
                    /\ lastRVecCall' = [op |-> "DestroyValue",
                                        outcome |-> outcome,
                                        nItems |-> 0,
                                        pre |-> [begin |-> rvBegin, size |-> rvSize,
                                                 capacity |-> rvCapacity],
                                        destroyed |-> destroyed,
                                        constructed |-> <<>>,
                                        reallocated |-> FALSE]
    /\ UNCHANGED <<rvBase, rvItem, rvBegin, rvSize, rvCapacity>>
    /\ UNCHANGED OutsideRVec

\* What was given to free() for the element buffer (the value's own address,
\* freed unless dtorOnly, apart).
FreedBuffers == {rvFreed[i] : i \in 1..Len(rvFreed)} \ {rvBase}

\* C21: DestroyValue frees the element buffer exactly when capacity != -1 and
\* begin is not the inline slot, which lies at header size plus middle padding
\* from the value's address as in EvalValueSize; the inline buffer of a small
\* value is never freed.
C21_DestroyFreesOwnedExternalBuffer ==
    lastRVecCall.op = "DestroyValue"
        => /\ (lastRVecCall.pre.begin \in FreedBuffers)
                 <=> /\ lastRVecCall.pre.capacity # -1
                     /\ lastRVecCall.pre.begin # InlineSlot(rvBase, rvItem.alignment)
           /\ InlineSlot(rvBase, rvItem.alignment) \notin FreedBuffers

\* RRVecField::ReadGlobalImpl(globalIndex, to), nItems being the size of the
\* entry that GetCollectionInfo reports.
RRVecFieldReadGlobalImpl ==
    /\ RVecAlive
    /\ \E nItems \in 0..MaxRVecItems :
          LET oldSize == rvSize
              needsConstruct == ~HasTrait(rvItem.traits, {"kTraitTriviallyConstructible"})
              needsDestruct == ~HasTrait(rvItem.traits, {"kTraitTriviallyDestructible"})
              mustReallocate == nItems > rvCapacity
              excess == IF needsDestruct THEN Positions(nItems, oldSize) ELSE <<>>
              old == IF mustReallocate /\ needsDestruct THEN Positions(0, oldSize) ELSE <<>>
              again == IF mustReallocate /\ needsConstruct
                       THEN Positions(0, oldSize) ELSE <<>>
              tail == IF needsConstruct THEN Positions(oldSize, nItems) ELSE <<>>
              \* a second destructor call on an item, or a constructor call
              \* past the end of the new buffer
              undefined == \/ excess # <<>> /\ old # <<>>
                           \/ mustReallocate /\ needsConstruct /\ oldSize > nItems
                           \/ mustReallocate /\ FreeIsUndefined(rvBegin)
              call(outcome) == [op |-> "ReadGlobalImpl",
                                outcome |-> outcome,
                                nItems |-> nItems,
                                pre |-> [begin |-> rvBegin, size |-> rvSize,
                                         capacity |-> rvCapacity],
                                destroyed |-> excess \o old,
                                constructed |-> again \o tail,
                                reallocated |-> mustReallocate]
          IN  IF mustReallocate
              THEN \* malloc(0) may return a null pointer, which R__ASSERT rejects
                   \E p \in BufferAddresses(rvBase, rvItem)
                                \cup (IF nItems = 0 THEN {0} ELSE {}) :
                   \E outcome \in {"ok", "crash"} :
                      /\ p = 0 => outcome = "crash"
                      /\ (p # 0 /\ outcome = "crash") => undefined
                      /\ rvFreed' = Append(rvFreed, rvBegin)
                      /\ rvBegin' = p
                      /\ rvCapacity' = nItems
                      /\ rvSize' = nItems
                      /\ lastRVecCall' = call(outcome)
              ELSE /\ rvSize' = nItems
                   /\ lastRVecCall' = call("ok")
                   /\ UNCHANGED <<rvBegin, rvCapacity, rvFreed>>
    /\ UNCHANGED <<rvBase, rvItem>>
    /\ UNCHANGED OutsideRVec

RVecNext ==
    \/ RRVecFieldDestroyValue
    \/ RRVecFieldReadGlobalImpl

SpecRVec == RVecInit /\ [][RVecNext]_vars

\* C28: ReadGlobalImpl never gives an inline buffer or a buffer the value does
\* not own to free(), whatever the state of the destination and the number of
\* items n; when it returns, size = n and capacity >= n.
C28_ReadFreesOwnedExternalBufferOnly ==
    lastRVecCall.op = "ReadGlobalImpl"
        => /\ InlineSlot(rvBase, rvItem.alignment) \notin FreedBuffers
           /\ lastRVecCall.pre.capacity = -1
                 => lastRVecCall.pre.begin \notin FreedBuffers \ {0}
           /\ lastRVecCall.outcome = "ok"
                 => rvSize = lastRVecCall.nItems /\ rvCapacity >= lastRVecCall.nItems

\* The elements of a sequence of positions.
PositionsIn(positions) == {positions[i] : i \in 1..Len(positions)}

\* No position occurs twice.
EachOnce(positions) ==
    \A i, j \in 1..Len(positions) : positions[i] = positions[j] => i = j

\* The lifecycle of the items over one read that takes a collection of m live
\* items to n items: `destroyed` and `constructed` are the positions given to
\* DestroyValueBy and GenerateValueBy, and `moved` says that the items are in a
\* new buffer to which the old items were not carried over.
\*  - a live item is destroyed at most once, and only live items are destroyed;
\*  - no slot is constructed twice or while it holds a live item;
\*  - every slot below n holds a live item when the child reads begin;
\*  - no slot from n on holds a live item that is not trivially destructible.
LifecycleIsSound(traits, m, n, destroyed, constructed, moved) ==
    LET kept(p) == p < m /\ ~moved /\ p \notin PositionsIn(destroyed)
        isTriviallyConstructible == "kTraitTriviallyConstructible" \in traits
        isTriviallyDestructible == "kTraitTriviallyDestructible" \in traits
        slots == 0..((IF m > n THEN m ELSE n) - 1)
    IN  /\ EachOnce(destroyed)
        /\ PositionsIn(destroyed) \subseteq 0..(m - 1)
        /\ EachOnce(constructed)
        /\ \A p \in PositionsIn(constructed) : ~kept(p)
        /\ \A p \in 0..(n - 1) :
              isTriviallyConstructible \/ p \in PositionsIn(constructed) \/ kept(p)
        /\ ~isTriviallyDestructible
              => \A p \in slots : p >= n => (~kept(p) /\ p \notin PositionsIn(constructed))

\* C29: in RVectorField::ReadGlobalImpl and RRVecField::ReadGlobalImpl, for
\* every old size m, entry size n and combination of the item's traits, every
\* live item is kept or destroyed exactly once, no slot is constructed while
\* live, and when the child reads begin slots 0..n-1 hold one live item each
\* and no slot from n on holds a live item that is not trivially destructible.
C29_ReadKeepsItemLifecycleSound ==
    /\ lastVectorRead.op = "ReadGlobalImpl"
          => LifecycleIsSound(itemTraits, Len(lastVectorRead.preValue), Len(vectorValue),
                              lastVectorRead.destroyed, lastVectorRead.constructed, FALSE)
    /\ lastRVecCall.op = "ReadGlobalImpl"
          => LifecycleIsSound(rvItem.traits, lastRVecCall.pre.size, lastRVecCall.nItems,
                              lastRVecCall.destroyed, lastRVecCall.constructed,
                              lastRVecCall.reallocated)

\* ---------------------------------------------------------------------------
\* RVariantField: the tag byte, the write path and the read path
\* ---------------------------------------------------------------------------

MaxAlternatives == 2
MaxVariantAppends == 3
MaxVariantCommits == 1
MaxVariantCalls == 4

\* The largest number of alternatives whose tag is stored in one byte.
kMaxTaggedAlternatives == 255

\* static_cast<char>(x) as the byte that is stored
ToByte(x) == x % 256

\* The value of a byte read through a char, which is a signed 8-bit integer.
FromChar(byte) == IF byte >= 128 THEN byte - 256 ELSE byte

\* RVariantField::GetTag
GetTag(byte) ==
    LET index == FromChar(byte)
    IN  IF index < 0 THEN 0 ELSE index + 1

\* RVariantField::SetTag: *index = static_cast<char>(tag - 1)
SetTag(tag) == ToByte(tag - 1)

\* What every operation of the variant field leaves alone.
OutsideVariant == <<bindingVars, appendVars, uniquePtrVars, cloneVars, createVars,
                    normalizeVars, callbackVars, vectorVars, rvecVars, recordVars>>
OutsideVariantIdle ==
    /\ BindingIdle /\ AppendIdle /\ UniquePtrIdle /\ CloneIdle /\ CreateIdle
    /\ NormalizeIdle /\ CallbackIdle /\ VectorIdle /\ RVecIdle /\ RecordIdle

\* A variant field of n alternatives as its constructor leaves it
\* (fNWritten.resize(nFields, 0)), and no value.
VariantConstructed(n) ==
    /\ nAlternatives = n
    /\ tagByte = 0
    /\ variantObjects = <<>>
    /\ fNWrittenOf = [i \in 1..n |-> 0]
    /\ switchColumn = <<>>
    /\ childAppends = [i \in 1..n |-> 0]
    /\ variantLog = <<>>
    /\ nVariantCommits = 0
    /\ lastVariantCall = NoVariantCall

\* ---- SetTag and GetTag ----

VariantTagInit ==
    /\ \E n \in 1..kMaxTaggedAlternatives : VariantConstructed(n)
    /\ OutsideVariantIdle

\* SetTag(value, tag) followed by GetTag(value)
RVariantFieldSetTag ==
    /\ \E tag \in 0..nAlternatives :
          /\ tagByte' = SetTag(tag)
          /\ lastVariantCall' = [op |-> "SetTag", tag |-> tag, result |-> GetTag(tagByte')]
    /\ UNCHANGED <<nAlternatives, variantObjects, fNWrittenOf, switchColumn, childAppends,
                   variantLog, nVariantCommits>>
    /\ UNCHANGED OutsideVariant

VariantTagNext == RVariantFieldSetTag

SpecVariantTag == VariantTagInit /\ [][VariantTagNext]_vars

\* C23: for a variant field of N <= 255 alternatives and every tag t in 0..N,
\* GetTag reads back t after SetTag(value, t).
C23_TagRoundTrip ==
    lastVariantCall.op = "SetTag" => lastVariantCall.result = lastVariantCall.tag

\* ---- AppendImpl and CommitCluster ----

VariantAppendInit ==
    /\ \E n \in 1..MaxAlternatives : VariantConstructed(n)
    /\ OutsideVariantIdle

\* ++fNWritten[tag - 1]: the value after the increment.
PreIncrement(nWritten, tag) ==
    [counters |-> [nWritten EXCEPT ![tag] = @ + 1], index |-> nWritten[tag] + 1]

\* fNWritten[tag - 1]++: the value before the increment.
PostIncrement(nWritten, tag) ==
    [counters |-> [nWritten EXCEPT ![tag] = @ + 1], index |-> nWritten[tag]]

\* RVariantField::AppendImpl(from): `from` holds the alternative of the given
\* tag (0: none), stored in its tag byte as SetTag stores it.
RVariantFieldAppendImpl ==
    /\ Len(variantLog) < MaxVariantAppends
    /\ \E held \in 0..nAlternatives :
          LET tag == GetTag(SetTag(held))
              written == IF tag > 0 THEN PostIncrement(fNWrittenOf, tag)
                         ELSE [counters |-> fNWrittenOf, index |-> 0]
          IN  /\ childAppends' = IF tag > 0 THEN [childAppends EXCEPT ![tag] = @ + 1]
                                 ELSE childAppends
              /\ fNWrittenOf' = written.counters
              /\ switchColumn' = Append(switchColumn, [tag |-> tag, index |-> written.index])
              /\ variantLog' = Append(variantLog, [tag |-> held, cluster |-> nVariantCommits])
              /\ lastVariantCall' = [op |-> "AppendImpl", tag |-> held, result |-> tag]
    /\ UNCHANGED <<nAlternatives, tagByte, variantObjects, nVariantCommits>>
    /\ UNCHANGED OutsideVariant

\* RVariantField::CommitCluster: std::fill(fNWritten.begin(), fNWritten.end(), 0)
RVariantFieldCommitCluster ==
    /\ nVariantCommits < MaxVariantCommits
    /\ fNWrittenOf' = [i \in 1..nAlternatives |-> 0]
    /\ nVariantCommits' = nVariantCommits + 1
    /\ lastVariantCall' = [op |-> "CommitCluster", tag |-> 0, result |-> 0]
    /\ UNCHANGED <<nAlternatives, tagByte, variantObjects, switchColumn, childAppends,
                   variantLog>>
    /\ UNCHANGED OutsideVariant

VariantAppendNext ==
    \/ RVariantFieldAppendImpl
    \/ RVariantFieldCommitCluster

SpecVariantAppend == VariantAppendInit /\ [][VariantAppendNext]_vars

\* Number of the Appends 1..k of the log with the given tag, in all clusters
\* (cluster = -1) or in one.
RECURSIVE AppendsWithTag(_, _, _, _)
AppendsWithTag(log, tag, cluster, k) ==
    IF k = 0 THEN 0
    ELSE (IF log[k].tag = tag /\ cluster \in {-1, log[k].cluster} THEN 1 ELSE 0)
             + AppendsWithTag(log, tag, cluster, k - 1)

\* C22: the k-th Append, of a value with tag t > 0, appends to child t-1 once
\* and writes the switch record (t, i), i being the number of earlier Appends
\* with tag t since the last CommitCluster; with tag 0 it appends to no child
\* and writes (0, 0).  The write counts of the other alternatives stay: each
\* counter is the number of Appends with its tag in the current cluster.
C22_AppendWritesSwitchRecord ==
    /\ Len(switchColumn) = Len(variantLog)
    /\ \A k \in 1..Len(variantLog) :
          switchColumn[k] =
              [tag |-> variantLog[k].tag,
               index |-> IF variantLog[k].tag = 0 THEN 0
                         ELSE AppendsWithTag(variantLog, variantLog[k].tag,
                                             variantLog[k].cluster, k - 1)]
    /\ \A t \in 1..nAlternatives :
          /\ childAppends[t] = AppendsWithTag(variantLog, t, -1, Len(variantLog))
          /\ fNWrittenOf[t] = AppendsWithTag(variantLog, t, nVariantCommits,
                                             Len(variantLog))

\* Two Appends with tag 2 around one with tag 0 and, after a CommitCluster, a
\* third Append with tag 2 that starts again at index 0.
C22_Witness ==
    /\ nAlternatives = 2
    /\ switchColumn = << [tag |-> 2, index |-> 0], [tag |-> 0, index |-> 0],
                         [tag |-> 2, index |-> 0] >>
    /\ variantLog[3].cluster = 1
    /\ childAppends = <<0, 2>>
    /\ fNWrittenOf = <<0, 1>>

\* ---- GenerateValue, ReadGlobalImpl and DestroyValue ----

\* A variant field and no value yet.
VariantReadInit ==
    /\ \E n \in 1..MaxAlternatives : VariantConstructed(n)
    /\ OutsideVariantIdle

VariantValueExists == lastVariantCall.op \in {"GenerateValue", "ReadGlobalImpl"}

\* GenerateValueBy(*fSubFields[tag - 1], where): an object of the alternative is
\* constructed in the storage of the value, whatever the storage holds.
ConstructAlternative(objects, tag) ==
    Append(objects, [alternative |-> tag, destroyed |-> 0])

\* DestroyValueBy(*fSubFields[tag - 1], objPtr, true): the destructor of the alternative
\* runs on the storage, that is on the object constructed there last.
DestroyAlternative(objects, tag) ==
    IF objects = <<>> THEN objects
    ELSE [objects EXCEPT ![Len(objects)].destroyed = @ + 1]

\* RVariantField::GenerateValue
RVariantFieldGenerateValue ==
    /\ lastVariantCall.op = "none"
    /\ variantObjects' = ConstructAlternative(variantObjects, 1)
    /\ tagByte' = SetTag(1)
    /\ lastVariantCall' = [op |-> "GenerateValue", tag |-> 1, result |-> GetTag(tagByte')]
    /\ UNCHANGED <<nAlternatives, fNWrittenOf, switchColumn, childAppends, variantLog,
                   nVariantCommits>>
    /\ UNCHANGED OutsideVariant

\* RVariantField::ReadGlobalImpl; the tag is the one GetSwitchInfo finds for the entry.
RVariantFieldReadGlobalImpl ==
    /\ VariantValueExists
    /\ Len(variantLog) < MaxVariantCalls
    /\ \E tag \in 0..nAlternatives :
          /\ variantObjects' = IF tag > 0 THEN ConstructAlternative(variantObjects, tag)
                               ELSE variantObjects
          /\ tagByte' = SetTag(tag)
          /\ variantLog' = Append(variantLog, [tag |-> tag, cluster |-> 0])
          /\ lastVariantCall' =
                [op |-> "ReadGlobalImpl", tag |-> tag, result |-> GetTag(tagByte')]
    /\ UNCHANGED <<nAlternatives, fNWrittenOf, switchColumn, childAppends, nVariantCommits>>
    /\ UNCHANGED OutsideVariant

\* RVariantField::DestroyValue
RVariantFieldDestroyValue ==
    /\ VariantValueExists
    /\ LET tag == GetTag(tagByte)
       IN  /\ variantObjects' = IF tag > 0 THEN DestroyAlternative(variantObjects, tag)
                                ELSE variantObjects
           /\ lastVariantCall' = [op |-> "DestroyValue", tag |-> tag, result |-> tag]
    /\ UNCHANGED <<nAlternatives, tagByte, fNWrittenOf, switchColumn, childAppends,
                   variantLog, nVariantCommits>>
    /\ UNCHANGED OutsideVariant

VariantReadNext ==
    \/ RVariantFieldGenerateValue
    \/ RVariantFieldReadGlobalImpl
    \/ RVariantFieldDestroyValue

SpecVariantRead == VariantReadInit /\ [][VariantReadNext]_vars

\* The objects in the storage of the value whose destructor has not run.
LiveAlternatives == {i \in 1..Len(variantObjects) : variantObjects[i].destroyed = 0}

\* C30: reading into a variant value never loses a live alternative: the alternative
\* the value held is destroyed before the next one is constructed over it or before
\* the tag is set to 0, so at most one constructed alternative is alive at any time,
\* the one the tag names, and once DestroyValue has run every constructed alternative
\* has been destroyed exactly once.
C30_ReadNeverLosesLiveAlternative ==
    /\ Cardinality(LiveAlternatives) <= 1
    /\ LiveAlternatives # {} /\ VariantValueExists
          => /\ LiveAlternatives = {Len(variantObjects)}
             /\ variantObjects[Len(variantObjects)].alternative = GetTag(tagByte)
    /\ lastVariantCall.op = "DestroyValue"
          => \A i \in 1..Len(variantObjects) : variantObjects[i].destroyed = 1

\* ---------------------------------------------------------------------------
\* RRecordField, RPairField and RTupleField: value size, offsets and Clone
\* ---------------------------------------------------------------------------

MaxRecordItems == 3

\* GetValueSize() and GetAlignment() of the item fields.
ItemLayouts == {[size |-> 1, alignment |-> 1],
                [size |-> 4, alignment |-> 4],
                [size |-> 8, alignment |-> 8]}

ItemLists == UNION {[1..n -> ItemLayouts] : n \in 1..MaxRecordItems}

\* fSize and fMaxAlignment before the body of a constructor runs.
EmptyLayout == [fSize |-> 0, fOffsets |-> <<>>, fMaxAlignment |-> 1]

\* RRecordField::GetItemPadding
GetItemPadding(baseOffset, itemAlignment) ==
    IF itemAlignment > 1 /\ baseOffset % itemAlignment # 0
    THEN itemAlignment - (baseOffset % itemAlignment)
    ELSE 0

\* std::max
Max(a, b) == IF a > b THEN a ELSE b

RECURSIVE LayoutFromItems(_, _, _)
\* The loop of RRecordField(fieldName, itemFields) from item i on.
LayoutFromItems(items, i, layout) ==
    IF i > Len(items) THEN layout
    ELSE LET offset == layout.fSize + GetItemPadding(layout.fSize, items[i].alignment)
         IN  LayoutFromItems(items, i + 1,
                 [fSize |-> offset + items[i].size,
                  fOffsets |-> Append(layout.fOffsets, offset),
                  fMaxAlignment |-> Max(layout.fMaxAlignment, items[i].alignment)])

\* RRecordField(fieldName, itemFields): the offsets are computed and the trailing
\* padding is added.
RecordFromItems(items) ==
    LET layout == LayoutFromItems(items, 1, EmptyLayout)
    IN  [layout EXCEPT !.fSize = @ + GetItemPadding(@, layout.fMaxAlignment)]

RECURSIVE SizeWithOffsets(_, _, _)
\* The loop of RRecordField(fieldName, itemFields, offsets, typeName) from item i on.
SizeWithOffsets(items, i, layout) ==
    IF i > Len(items) THEN layout
    ELSE SizeWithOffsets(items, i + 1,
             [layout EXCEPT
                 !.fSize = @ + GetItemPadding(@, items[i].alignment) + items[i].size,
                 !.fMaxAlignment = Max(@, items[i].alignment)])

\* RRecordField(fieldName, itemFields, offsets, typeName): fOffsets(offsets), and no
\* trailing padding.
RecordFromLayout(items, offsets) ==
    SizeWithOffsets(items, 1, [EmptyLayout EXCEPT !.fOffsets = offsets])

\* TClass::Size() and the member offsets of std::pair and std::tuple: the members in
\* the order of the type list, each at its alignment, and the size a multiple of the
\* strictest alignment.
ClassLayout(items) == RecordFromItems(items)

\* RPairField(fieldName, itemFields) and RTupleField(fieldName, itemFields): the base
\* class is built with empty offsets, then fSize and fOffsets are taken from the class.
FromClass(items) ==
    LET base == RecordFromLayout(items, <<>>)
    IN  [base EXCEPT !.fSize = ClassLayout(items).fSize,
                     !.fOffsets = ClassLayout(items).fOffsets]

\* A field as its public constructor builds it from the item fields.
RecordField(k, items) ==
    [kind |-> k, items |-> items] @@
        (IF k = "Record" THEN RecordFromItems(items) ELSE FromClass(items))

\* RRecordField::CloneImpl, RPairField::CloneImpl, RTupleField::CloneImpl: the items
\* are cloned (same size and alignment) and the field is rebuilt from them and fOffsets.
RecordCloneImpl(field) ==
    [kind |-> field.kind, items |-> field.items] @@
        RecordFromLayout(field.items, field.fOffsets)

\* What the record fields leave alone.
OutsideRecord == <<bindingVars, appendVars, uniquePtrVars, cloneVars, createVars,
                   normalizeVars, callbackVars, vectorVars, rvecVars, variantVars>>
OutsideRecordIdle ==
    /\ BindingIdle /\ AppendIdle /\ UniquePtrIdle /\ CloneIdle /\ CreateIdle
    /\ NormalizeIdle /\ CallbackIdle /\ VectorIdle /\ RVecIdle /\ VariantIdle

RecordInit ==
    /\ \E k \in {"Record", "Pair", "Tuple"}, items \in ItemLists :
          /\ k = "Pair" => Len(items) = 2
          /\ recordField = RecordField(k, items)
    /\ recordClone = <<>>
    /\ OutsideRecordIdle

\* Clone(newName) of the field.
RecordClone ==
    /\ recordClone = <<>>
    /\ recordClone' = RecordCloneImpl(recordField)
    /\ UNCHANGED recordField
    /\ UNCHANGED OutsideRecord

RecordNext == RecordClone

SpecRecord == RecordInit /\ [][RecordNext]_vars

\* The strictest alignment among the items.
StrictestAlignment(items) ==
    CHOOSE a \in {items[i].alignment : i \in 1..Len(items)} :
        \A i \in 1..Len(items) : items[i].alignment <= a

\* The value size covers every child and is a multiple of the strictest alignment.
SizeCoversValue(field) ==
    /\ \A i \in 1..Len(field.items) :
          field.fSize >= field.fOffsets[i] + field.items[i].size
    /\ field.fSize % StrictestAlignment(field.items) = 0

\* C26: for every record, pair and tuple field, built from its item fields or produced
\* by Clone, the value size covers every child (size >= offset_i + childSize_i) and is
\* a multiple of the strictest child alignment; a clone has the value size of its
\* original.
C26_SizeCoversChildrenAndPadding ==
    /\ SizeCoversValue(recordField)
    /\ recordClone # <<>> =>
          /\ SizeCoversValue(recordClone)
          /\ recordClone.fSize = recordField.fSize

====
